---- MODULE Spec2Model ----
(***************************************************************************)
(* Payment status reconciliation of the donation backend.                  *)
(*                                                                         *)
(* The database tables (donations, sbiepay_payment_logs,                   *)
(* phonepe_payment_logs) are shared; every request runs PaymentService     *)
(* with its own SQLAlchemy session.  A request advances from one `await`   *)
(* on the database, a gateway or the notification service to the next;     *)
(* the code between two awaits runs without interruption (asyncio), so     *)
(* one action is one such stretch.  A commit issues an UPDATE of the       *)
(* columns whose value differs from the value the session loaded; a        *)
(* refresh reloads the row.                                                *)
(***************************************************************************)
EXTENDS Integers, Sequences, FiniteSets, TLC

\* ------------------------------------------------------------------ bounds
\* reconciliations started in all
MaxReconciles == 3

\* a reconciliation may start while another request is in flight only
\* among the first MaxOverlapped reconciliations
MaxOverlapped == 2

\* the clock of the token cache runs to MaxNow
MaxNow == 4

\* grant requests sent to the PhonePe auth endpoint in all
MaxAuthCalls == 3

\* distinct grants the auth endpoint hands out
MaxGrants == 2

\* order ids issued by create_donation
Orders == {"o1"}

\* an order id no donation was ever created with (a stale or forged callback)
UnknownOrders == {"ox"}

OrderIds == Orders \cup UnknownOrders
Reqs == {"r1", "r2"}

\* ------------------------------------------------------- program constants
Providers == {"phonepe", "sbiepay"}

\* raw transaction_status strings of an SBIePay packet; "INITIATED" stands
\* for every string the mapping does not name
TxStatuses == {"SUCCESS", "FAILED", "INITIATED"}

PhonePePaymentState == {"PENDING", "COMPLETED", "FAILED", "EXPIRED"}

DonationStatus == {"pending", "payment_failed", "completed"}

NotifyOutcomes == {"sent", "failed", "raise"}

\* ------------------------------------------------------------------- rows
NoDonation == [status |-> "none", provider |-> "none", email |-> FALSE]

\* ref: sbiepay_ref_id with the bank/pay-mode columns written beside it;
\* data: sbiepay_response_data (with reason_message, other_details);
\* dv: double_verification_data
NoSbiLog == [status |-> "none", ref |-> "none", data |-> "none", dv |-> "none"]

NoPhonePeLog == [status |-> "none", details |-> "none"]

NewSbiLog == [status |-> "pending", ref |-> "none", data |-> "none", dv |-> "none"]

NewPhonePeLog == [status |-> "pending", details |-> "none"]

\* encrypted callback payloads: a packet that decrypts and parses, one that
\* does not decrypt, one that decrypts to too few fields
Packets ==
    {[kind |-> "ok", order |-> o, ts |-> t] : o \in Orders, t \in TxStatuses}
    \cup {[kind |-> "ok", order |-> o, ts |-> "SUCCESS"] : o \in UnknownOrders}
    \cup {[kind |-> k, order |-> "none", ts |-> "none"] : k \in {"undecryptable", "malformed"}}

VARIABLES donations, sbiLogs, phonepeLogs, notifications, pc, req, nRec

\* the PhonePe client (one instance per process): tokCache is the pair
\* (_auth_token, _auth_token_expiry), now the clock in the unit of the
\* expiry, authCalls the grant requests sent, caller the coroutines that
\* call _ensure_auth_token
VARIABLES tokCache, now, authCalls, caller

\* the payments router: hook is the delivery a gateway callback endpoint
\* is working on, from the request to its reply
VARIABLES hook

\* the gateway clients: gw is the payment creation or the status call in
\* progress, from the service method to its return
VARIABLES gw

\* the SBIePay codec: trip is a packet on its way through _encrypt and back
\* through _decrypt
VARIABLES trip

\* the notification service: mail is the table email_logs and the send in
\* progress, from the call of send_email / send_template_email to its return
VARIABLES mail

payVars == <<donations, sbiLogs, phonepeLogs, notifications, pc, req, nRec>>

tokenVars == <<tokCache, now, authCalls, caller>>

hookVars == <<hook>>

gwVars == <<gw>>

tripVars == <<trip>>

mailVars == <<mail>>

\* what the payment requests leave alone
sideVars == <<tokenVars, hookVars, gwVars, tripVars, mailVars>>

\* what the token manager, the router and the gateway clients leave alone
tokenFrame == <<payVars, hookVars, gwVars, tripVars, mailVars>>

hookFrame == <<payVars, tokenVars, gwVars, tripVars, mailVars>>

gwFrame == <<payVars, tokenVars, hookVars, tripVars, mailVars>>

tripFrame == <<payVars, tokenVars, hookVars, gwVars, mailVars>>

mailFrame == <<payVars, tokenVars, hookVars, gwVars, tripVars>>

vars == <<payVars, sideVars>>

tables == <<donations, sbiLogs, phonepeLogs>>

IdleReq ==
    [kind |-> "none", order |-> "none", fallback |-> "none", report |-> "none",
     details |-> FALSE, log |-> NoSbiLog, plog |-> NoPhonePeLog, prev |-> "none",
     don |-> "none", donPrev |-> "none", email |-> FALSE, notified |-> FALSE,
     outcome |-> "none", result |-> "none", wroteLog |-> FALSE, wroteDon |-> FALSE]

Callers == {"c1", "c2"}

\* PhonePeClient.__init__: no token (written 0; the tokens of the grants
\* are 1, 2, ...), expiry 0
NoToken == [token |-> 0, expiry |-> 0]

IdleCaller == [at |-> "idle", used |-> 0]

\* AES block size: the IV is the first 16 bytes of the decoded packet
BLOCK_SIZE == 16

\* handle_payment_response reads response_fields[0] .. response_fields[14]
MinFields == 15

\* the callback endpoints of the payments router
SbiePayRedirects == {"sbiepay_success", "sbiepay_failure"}

RedirectCallbacks == SbiePayRedirects \cup {"phonepe_redirect"}

Endpoints == RedirectCallbacks \cup {"sbiepay_pushresponse"}

\* decoded sizes in bytes of the packets sent: no IV, a short IV, an IV
\* alone, a body that is no whole number of blocks, whole blocks
Sizes == {0, 8, 16, 24, 32, 48}

\* last byte of the decrypted body, which _unpad takes for the pad length
Pads == {0, 1, 16, 32, 255}

\* number of "|" in the decrypted text
PipeCounts == {0, 2, 3, 13, 14, 15, 23}

\* a packet as sent in encData / pushRespData, described by what the
\* decoding looks at: does base64 accept it, its decoded size, the last
\* byte of the decrypted body, is the unpadded body UTF-8, the number of
\* "|" in the text, is the fourth field a decimal number, the order named
Message(b, s, p, u, n, a, o) ==
    [b64 |-> b, size |-> s, pad |-> p, utf8 |-> u, pipes |-> n, amount |-> a,
     order |-> o]

Messages ==
    {Message(b, s, 1, TRUE, 14, "numeric", "o1") : b \in BOOLEAN, s \in Sizes}
    \cup {Message(TRUE, 48, p, u, 14, "numeric", "o1") : p \in Pads, u \in BOOLEAN}
    \cup {Message(TRUE, 48, 1, TRUE, n, a, o) :
             n \in PipeCounts, a \in {"numeric", "text"}, o \in OrderIds}

NoMessage == Message(FALSE, 0, 0, FALSE, 0, "text", "none")

NoClientResult == [status |-> "none", raised |-> "none"]

NoReply == [kind |-> "none", status |-> "none"]

IdleHook ==
    [at |-> "idle", endpoint |-> "none", given |-> "none", message |-> NoMessage,
     client |-> NoClientResult, reply |-> NoReply]

\* an amount in rupees as the float the services pass on: cents is the
\* amount in hundredths as the donor wrote it, mantissa (three digits of 18
\* bits, lowest first) and exponent give the nearest IEEE double,
\* mantissa * 2^(exponent - 52)
Amt(cents, mantissa, exponent) ==
    [cents |-> cents, mantissa |-> mantissa, exponent |-> exponent]

\* 5000.00, 1000.00, 2500.75, 12345.67, 1000.50, 1024.09, 1024.13, 1999.99
Amounts ==
    {Amt(500000, <<0, 0, 80000>>, 12),
     Amt(100000, <<0, 0, 128000>>, 9),
     Amt(250075, <<0, 0, 80024>>, 11),
     Amt(1234567, <<220201, 94371, 98765>>, 13),
     Amt(100050, <<0, 0, 128064>>, 9),
     Amt(102409, <<115343, 199229, 65541>>, 10),
     Amt(102413, <<20972, 83886, 65544>>, 10),
     Amt(199999, <<220201, 94371, 127999>>, 10)}

NoAmount == Amt(0, <<0, 0, 0>>, 0)

\* an exception of a gateway client: status_code 0 and response_data FALSE
\* stand for the attributes left at None; text is the innermost message,
\* which every wrapper repeats in its own
NoError == [type |-> "none", status_code |-> 0, response_data |-> FALSE, text |-> "none"]

NoLog == [status |-> "none", amount |-> 0]

IdleGw ==
    [at |-> "idle", provider |-> "none", op |-> "none", amount |-> NoAmount,
     body |-> 0, packet |-> 0, calls |-> 0, reply |-> "none", status |-> 0,
     error |-> NoError, result |-> "none", log |-> NoLog]

IdleTrip ==
    [at |-> "idle", fields |-> <<>>, bytes |-> <<>>, unpadded |-> <<>>,
     message |-> <<>>, out |-> <<>>]

\* an EmailLog row: "none" stands for NULL in message_id and error_message,
\* content tells whether mail_content is stored
NoEmailLog ==
    [status |-> "none", message_id |-> "none", error_message |-> "none",
     content |-> FALSE]

\* what the email service gives back: the result dictionary, or raised with
\* the text of the exception in error_message
NoResult ==
    [success |-> FALSE, message_id |-> "none", error_message |-> "none",
     raised |-> FALSE]

IdleMail ==
    [at |-> "idle", method |-> "none", body |-> FALSE, renders |-> FALSE,
     result |-> NoResult, log |-> NoEmailLog, rows |-> <<>>]

Init ==
    /\ mail = IdleMail
    /\ trip = IdleTrip
    /\ gw = IdleGw
    /\ hook = IdleHook
    /\ tokCache = NoToken
    /\ now = 0
    /\ authCalls = 0
    /\ caller = [c \in Callers |-> IdleCaller]
    /\ donations = [o \in Orders |-> NoDonation]
    /\ sbiLogs = [o \in Orders |-> <<>>]
    /\ phonepeLogs = [o \in Orders |-> <<>>]
    /\ notifications = [o \in Orders |-> 0]
    /\ pc = [r \in Reqs |-> "idle"]
    /\ req = [r \in Reqs |-> IdleReq]
    /\ nRec = 0

\* ------------------------------------------------------------ pure helpers
\* select(...).where(merchant_order_id == order_id): the rows of that order
Rows(table, order_id) == IF order_id \in DOMAIN table THEN table[order_id] ELSE <<>>

MapCallbackStatus(ts) ==
    IF ts = "SUCCESS" THEN "success"
    ELSE IF ts \in {"FAILED", "FAIL"} THEN "failed"
    ELSE "pending"

\* the verification branch testing "FAILED" alone
MapVerifyStatusFailedOnly(ts) ==
    IF ts = "SUCCESS" THEN "success"
    ELSE IF ts = "FAILED" THEN "failed"
    ELSE "pending"

MapVerifyStatus(ts) ==
    IF ts = "SUCCESS" THEN "success"
    ELSE IF ts \in {"FAILED", "FAIL"} THEN "failed"
    ELSE "pending"

MapPhonePeState(state) ==
    IF state = "COMPLETED" THEN "completed"
    ELSE IF state = "FAILED" THEN "failed"
    ELSE "pending"

\* the derivation that knows the PhonePe word for a paid log only
DeriveDonationStatusCompletedOnly(payment_status) ==
    IF payment_status \in {"completed"} THEN "completed"
    ELSE IF payment_status \in {"failed"} THEN "payment_failed"
    ELSE "pending"

DeriveDonationStatus(payment_status) ==
    IF payment_status \in {"completed", "success"} THEN "completed"
    ELSE IF payment_status \in {"failed"} THEN "payment_failed"
    ELSE "pending"

\* the inline derivation without its branch for a failed log
DerivePhonePeDonationStatusNoFailed(payment_status) ==
    IF payment_status = "completed" THEN "completed" ELSE "pending"

DerivePhonePeDonationStatus(payment_status) ==
    IF payment_status = "completed" THEN "completed"
    ELSE IF payment_status = "failed" THEN "payment_failed"
    ELSE "pending"

\* session.commit(): the UPDATE carries the columns whose current value
\* differs from the value loaded into the session
Flush(db, loaded, cur) ==
    [c \in DOMAIN db |-> IF cur[c] # loaded[c] THEN cur[c] ELSE db[c]]

FlushValue(db, loaded, cur) == IF cur # loaded THEN cur ELSE db

InFlight(r) == pc[r] \notin {"idle", "done"}

Budget(r) ==
    IF \E q \in Reqs \ {r} : InFlight(q) THEN nRec < MaxOverlapped
    ELSE nRec < MaxReconciles

\* the request ends with res: "ok" for a normal return, else the exception
\* that leaves the service method.  "not_found" is
\* InvalidRequestException("Payment log not found" / "Payment information
\* not found"), "invalid_request" is InvalidRequestException("Failed to
\* process payment response"), "sbiepay_error" / "phonepe_error" the
\* gateway client's exception, "integrity_error" the rejected INSERT
Finish(r, res, rec) ==
    /\ pc' = [pc EXCEPT ![r] = "done"]
    /\ req' = [req EXCEPT ![r] = [rec EXCEPT !.result = res]]

\* -------------------------------------------------------- donation intake
CreateDonation(o, provider, email) ==
    /\ donations[o] = NoDonation
    /\ sbiLogs[o] = <<>> /\ phonepeLogs[o] = <<>>
    /\ donations' = [donations EXCEPT ![o] =
           [status |-> "pending", provider |-> provider, email |-> email]]
    /\ UNCHANGED <<sbiLogs, phonepeLogs, notifications, pc, req, nRec>>

\* ------------------------------------------------------- payment creation
\* the insert with the unique constraint on merchant_order_id left out
UniqueViolationUnchecked(rows) == FALSE

\* merchant_order_id is declared unique=True on both log tables: the INSERT
\* of a second row with the same order id raises IntegrityError
UniqueViolation(rows) == rows # <<>>

BeginRecord(r, kind, o) ==
    [IdleReq EXCEPT !.kind = kind, !.order = o]

\* the donation workflow creates the payment of a donation through the
\* donation's gateway
BeginCreatePhonePe(r, o) ==
    /\ pc[r] = "idle"
    /\ donations[o].provider = "phonepe"
    /\ pc' = [pc EXCEPT ![r] = "cp_call"]
    /\ req' = [req EXCEPT ![r] = BeginRecord(r, "create_phonepe", o)]
    /\ UNCHANGED <<tables, notifications, nRec>>

\* phonepe_client.create_payment: returns the gateway order or raises
CreatePhonePeCall(r, ok) ==
    /\ pc[r] = "cp_call"
    /\ IF ok
       THEN /\ pc' = [pc EXCEPT ![r] = "cp_insert"]
            /\ UNCHANGED req
       ELSE Finish(r, "phonepe_error", req[r])
    /\ UNCHANGED <<tables, notifications, nRec>>

CreatePhonePeInsert(r) ==
    /\ pc[r] = "cp_insert"
    /\ LET o == req[r].order IN
       IF UniqueViolation(phonepeLogs[o])
       THEN /\ Finish(r, "integrity_error", req[r])
            /\ UNCHANGED phonepeLogs
       ELSE /\ phonepeLogs' = [phonepeLogs EXCEPT ![o] = Append(@, NewPhonePeLog)]
            /\ Finish(r, "ok", [req[r] EXCEPT !.plog = NewPhonePeLog, !.wroteLog = TRUE])
    /\ UNCHANGED <<donations, sbiLogs, notifications, nRec>>

\* sbiepay_client.create_payment builds and encrypts the packet locally
BeginCreateSbiePay(r, o) ==
    /\ pc[r] = "idle"
    /\ donations[o].provider = "sbiepay"
    /\ pc' = [pc EXCEPT ![r] = "cs_insert"]
    /\ req' = [req EXCEPT ![r] = BeginRecord(r, "create_sbiepay", o)]
    /\ UNCHANGED <<tables, notifications, nRec>>

CreateSbiePayInsert(r) ==
    /\ pc[r] = "cs_insert"
    /\ LET o == req[r].order IN
       IF UniqueViolation(sbiLogs[o])
       THEN /\ Finish(r, "integrity_error", req[r])
            /\ UNCHANGED sbiLogs
       ELSE /\ sbiLogs' = [sbiLogs EXCEPT ![o] = Append(@, NewSbiLog)]
            /\ Finish(r, "ok", [req[r] EXCEPT !.log = NewSbiLog, !.wroteLog = TRUE])
    /\ UNCHANGED <<donations, phonepeLogs, notifications, nRec>>

\* --------------------------------------------- notification gate and send
\* the gate without the comparison with the status read before the update
CallbackGateEverySuccess(previous_status, payment_status, donationFound) ==
    /\ payment_status = "success"
    /\ donationFound

CallbackGate(previous_status, payment_status, donationFound) ==
    /\ previous_status # "success"
    /\ payment_status = "success"
    /\ donationFound

VerifyGate(previous_status, payment_status, donationFound) ==
    /\ previous_status # "success"
    /\ payment_status = "success"
    /\ donationFound

PhonePeGate(previous_status, donation_status) ==
    /\ previous_status # "completed"
    /\ donation_status = "completed"

\* the send without the try/except: an exception of the notification
\* service leaves the handler
SafeSendResultUncaught(outcome) == IF outcome = "raise" THEN "error" ELSE "ok"

\* _send_donation_thank_you_email_safe: try/except Exception around the send
SafeSendResult(outcome) == "ok"

\* ------------------------------------------------ handle_sbiepay_response
\* the lookup without its where clause: any payment log answers it
SbiLookupAnyLog(merchant_order_number, order_id) ==
    IF \E o \in Orders : sbiLogs[o] # <<>>
    THEN CHOOSE o \in Orders : sbiLogs[o] # <<>>
    ELSE "none"

\* the order whose log the two lookups find, "none" when neither finds one
SbiLookup(merchant_order_number, order_id) ==
    IF Rows(sbiLogs, merchant_order_number) # <<>> THEN merchant_order_number
    ELSE IF order_id # "none" /\ Rows(sbiLogs, order_id) # <<>> THEN order_id
    ELSE "none"

\* a payload with missing fields taken for a parsed one
ResponseStatusLenient(pkt) ==
    IF pkt.kind \in {"ok", "malformed"} THEN "success" ELSE "error"

\* what sbiepay_client.handle_payment_response gives for the payload: the
\* parsed fields ("success"), status "error" when it does not decrypt, or
\* SbiePayError ("raise") when the decrypted text lacks fields
ResponseStatus(pkt) ==
    IF pkt.kind = "ok" THEN "success"
    ELSE IF pkt.kind = "undecryptable" THEN "error"
    ELSE "raise"

\* sbiepay_client.handle_payment_response runs without suspending: status
\* "error" becomes InvalidRequestException here, SbiePayError passes through
BeginHandle(r, pkt, order_id) ==
    /\ pc[r] = "idle"
    /\ Budget(r)
    /\ nRec' = nRec + 1
    /\ LET rec == [BeginRecord(r, "handle", pkt.order) EXCEPT
                      !.fallback = order_id, !.report = pkt.ts]
       IN IF ResponseStatus(pkt) = "success"
          THEN /\ pc' = [pc EXCEPT ![r] = "h_select"]
               /\ req' = [req EXCEPT ![r] = rec]
          ELSE Finish(r, IF ResponseStatus(pkt) = "error" THEN "invalid_request"
                         ELSE "sbiepay_error", rec)
    /\ UNCHANGED <<tables, notifications>>

HandleSelect(r) ==
    /\ pc[r] = "h_select"
    /\ LET found == SbiLookup(req[r].order, req[r].fallback) IN
       IF found = "none"
       THEN Finish(r, "not_found", req[r])
       ELSE /\ pc' = [pc EXCEPT ![r] = "h_commit"]
            /\ req' = [req EXCEPT ![r].order = found,
                                  ![r].log = Head(sbiLogs[found]),
                                  ![r].prev = Head(sbiLogs[found]).status]
    /\ UNCHANGED <<tables, notifications, nRec>>

HandleCommit(r) ==
    /\ pc[r] = "h_commit"
    /\ LET o == req[r].order
           loaded == req[r].log
           cur == [loaded EXCEPT !.ref = "atrn", !.data = req[r].report,
                                 !.status = MapCallbackStatus(req[r].report)]
       IN /\ sbiLogs' = [sbiLogs EXCEPT ![o] =
                 <<Flush(Head(@), loaded, cur)>> \o Tail(@)]
          /\ req' = [req EXCEPT ![r].log = cur, ![r].wroteLog = TRUE]
    /\ pc' = [pc EXCEPT ![r] = "h_refresh"]
    /\ UNCHANGED <<donations, phonepeLogs, notifications, nRec>>

HandleRefresh(r) ==
    /\ pc[r] = "h_refresh"
    /\ req' = [req EXCEPT ![r].log = Head(sbiLogs[req[r].order])]
    /\ pc' = [pc EXCEPT ![r] = "d_select"]
    /\ UNCHANGED <<tables, notifications, nRec>>

\* --------------------------------------------- verify_sbiepay_transaction
BeginVerify(r, o) ==
    /\ pc[r] = "idle"
    /\ Budget(r)
    /\ nRec' = nRec + 1
    /\ pc' = [pc EXCEPT ![r] = "v_select"]
    /\ req' = [req EXCEPT ![r] = BeginRecord(r, "verify", o)]
    /\ UNCHANGED <<tables, notifications>>

VerifySelect(r) ==
    /\ pc[r] = "v_select"
    /\ LET o == req[r].order IN
       IF Rows(sbiLogs, o) = <<>>
       THEN Finish(r, "not_found", req[r])
       ELSE /\ pc' = [pc EXCEPT ![r] = "v_call"]
            /\ req' = [req EXCEPT ![r].log = Head(sbiLogs[o]),
                                  ![r].prev = Head(sbiLogs[o]).status]
    /\ UNCHANGED <<tables, notifications, nRec>>

\* every reply of the verification taken for a verified one
VerificationStatusAlwaysSuccess(reply) == "success"

\* VerifyTransactionResponse.status: "error" when the client refuses the
\* query (neither ATRN nor order number), "success" with a parsed reply
VerificationStatus(reply) == IF reply = "error" THEN "error" ELSE "success"

\* sbiepay_client.verify_transaction: the parsed reply, status "error", or
\* SbiePayError (transport failure, unparsable reply); without status
\* "success" the service returns the payment log as it loaded it
VerifyCall(r, reply) ==
    /\ pc[r] = "v_call"
    /\ IF reply = "raise"
       THEN Finish(r, "sbiepay_error", [req[r] EXCEPT !.report = reply])
       ELSE IF VerificationStatus(reply) # "success"
       THEN Finish(r, "ok", [req[r] EXCEPT !.report = reply])
       ELSE /\ pc' = [pc EXCEPT ![r] = "v_commit"]
            /\ req' = [req EXCEPT ![r].report = reply]
    /\ UNCHANGED <<tables, notifications, nRec>>

VerifyCommit(r) ==
    /\ pc[r] = "v_commit"
    /\ LET o == req[r].order
           loaded == req[r].log
           cur == [loaded EXCEPT !.dv = req[r].report, !.ref = "atrn",
                                 !.status = MapVerifyStatus(req[r].report)]
       IN /\ sbiLogs' = [sbiLogs EXCEPT ![o] =
                 <<Flush(Head(@), loaded, cur)>> \o Tail(@)]
          /\ req' = [req EXCEPT ![r].log = cur, ![r].wroteLog = TRUE]
    /\ pc' = [pc EXCEPT ![r] = "v_refresh"]
    /\ UNCHANGED <<donations, phonepeLogs, notifications, nRec>>

VerifyRefresh(r) ==
    /\ pc[r] = "v_refresh"
    /\ req' = [req EXCEPT ![r].log = Head(sbiLogs[req[r].order])]
    /\ pc' = [pc EXCEPT ![r] = "d_select"]
    /\ UNCHANGED <<tables, notifications, nRec>>

\* ------------------------------------------------ _update_donation_status
UpdateDonationSelect(r) ==
    /\ pc[r] = "d_select"
    /\ LET d == donations[req[r].order] IN
       IF d = NoDonation
       THEN Finish(r, "ok", req[r])
       ELSE /\ pc' = [pc EXCEPT ![r] = "d_commit"]
            /\ req' = [req EXCEPT ![r].don = d.status, ![r].donPrev = d.status,
                                  ![r].email = d.email]
    /\ UNCHANGED <<tables, notifications, nRec>>

UpdateDonationCommit(r) ==
    /\ pc[r] = "d_commit"
    /\ LET o == req[r].order
           cur == DeriveDonationStatus(req[r].log.status)
       IN /\ donations' = [donations EXCEPT ![o].status =
                 FlushValue(@, req[r].don, cur)]
          /\ req' = [req EXCEPT ![r].don = cur, ![r].wroteDon = TRUE]
    /\ pc' = [pc EXCEPT ![r] = "d_refresh"]
    /\ UNCHANGED <<sbiLogs, phonepeLogs, notifications, nRec>>

\* the refresh ends _update_donation_status; the caller then decides on
\* the thank-you email from its own previous_status
UpdateDonationRefresh(r) ==
    /\ pc[r] = "d_refresh"
    /\ LET rec == [req[r] EXCEPT !.don = donations[req[r].order].status]
           gate == IF req[r].kind = "handle"
                   THEN CallbackGate(req[r].prev, req[r].log.status, TRUE)
                   ELSE VerifyGate(req[r].prev, req[r].log.status, TRUE)
       IN IF gate
          THEN /\ pc' = [pc EXCEPT ![r] = "notify"]
               /\ req' = [req EXCEPT ![r] = rec]
          ELSE Finish(r, "ok", rec)
    /\ UNCHANGED <<tables, notifications, nRec>>

\* ------------------------------------- _send_donation_thank_you_email_safe
SendThankYouSafe(r, outcome) ==
    /\ pc[r] = "notify"
    /\ IF req[r].email
       THEN /\ notifications' = [notifications EXCEPT ![req[r].order] = @ + 1]
            /\ Finish(r, SafeSendResult(outcome),
                      [req[r] EXCEPT !.notified = TRUE, !.outcome = outcome])
       ELSE /\ outcome = "sent"
            /\ Finish(r, "ok", req[r])
            /\ UNCHANGED notifications
    /\ UNCHANGED <<tables, nRec>>

\* --------------------------------------------- get_phonepe_payment_status
BeginPoll(r, o) ==
    /\ pc[r] = "idle"
    /\ Budget(r)
    /\ nRec' = nRec + 1
    /\ pc' = [pc EXCEPT ![r] = "p_select"]
    /\ req' = [req EXCEPT ![r] = BeginRecord(r, "poll", o)]
    /\ UNCHANGED <<tables, notifications>>

PollSelect(r) ==
    /\ pc[r] = "p_select"
    /\ LET o == req[r].order IN
       IF Rows(phonepeLogs, o) = <<>>
       THEN Finish(r, "not_found", req[r])
       ELSE /\ pc' = [pc EXCEPT ![r] = "p_call"]
            /\ req' = [req EXCEPT ![r].plog = Head(phonepeLogs[o]),
                                  ![r].prev = Head(phonepeLogs[o]).status]
    /\ UNCHANGED <<tables, notifications, nRec>>

\* phonepe_client.get_order_status: the order state with or without
\* payment details, or PhonePeError
PollCall(r, state, payment_details) ==
    /\ pc[r] = "p_call"
    /\ IF state = "raise"
       THEN /\ payment_details = FALSE
            /\ Finish(r, "phonepe_error", [req[r] EXCEPT !.report = state])
       ELSE /\ pc' = [pc EXCEPT ![r] = "p_commit"]
            /\ req' = [req EXCEPT ![r].report = state, ![r].details = payment_details]
    /\ UNCHANGED <<tables, notifications, nRec>>

PollCommit(r) ==
    /\ pc[r] = "p_commit"
    /\ LET o == req[r].order
           loaded == req[r].plog
           cur == [loaded EXCEPT !.status = MapPhonePeState(req[r].report),
                                 !.details = IF req[r].details THEN "details" ELSE @]
       IN /\ phonepeLogs' = [phonepeLogs EXCEPT ![o] =
                 <<Flush(Head(@), loaded, cur)>> \o Tail(@)]
          /\ req' = [req EXCEPT ![r].plog = cur, ![r].wroteLog = TRUE]
    /\ pc' = [pc EXCEPT ![r] = "p_refresh"]
    /\ UNCHANGED <<donations, sbiLogs, notifications, nRec>>

PollRefresh(r) ==
    /\ pc[r] = "p_refresh"
    /\ req' = [req EXCEPT ![r].plog = Head(phonepeLogs[req[r].order])]
    /\ pc' = [pc EXCEPT ![r] = "pd_select"]
    /\ UNCHANGED <<tables, notifications, nRec>>

PollDonationSelect(r) ==
    /\ pc[r] = "pd_select"
    /\ LET d == donations[req[r].order] IN
       IF d = NoDonation
       THEN Finish(r, "ok", req[r])
       ELSE /\ pc' = [pc EXCEPT ![r] = "pd_commit"]
            /\ req' = [req EXCEPT ![r].don = d.status, ![r].donPrev = d.status,
                                  ![r].email = d.email]
    /\ UNCHANGED <<tables, notifications, nRec>>

PollDonationCommit(r) ==
    /\ pc[r] = "pd_commit"
    /\ LET o == req[r].order
           cur == DerivePhonePeDonationStatus(req[r].plog.status)
       IN /\ donations' = [donations EXCEPT ![o].status =
                 FlushValue(@, req[r].don, cur)]
          /\ req' = [req EXCEPT ![r].don = cur, ![r].wroteDon = TRUE]
    /\ pc' = [pc EXCEPT ![r] = "pd_refresh"]
    /\ UNCHANGED <<sbiLogs, phonepeLogs, notifications, nRec>>

PollDonationRefresh(r) ==
    /\ pc[r] = "pd_refresh"
    /\ LET status == donations[req[r].order].status
           rec == [req[r] EXCEPT !.don = status]
       IN IF PhonePeGate(req[r].donPrev, status)
          THEN /\ pc' = [pc EXCEPT ![r] = "notify"]
               /\ req' = [req EXCEPT ![r] = rec]
          ELSE Finish(r, "ok", rec)
    /\ UNCHANGED <<tables, notifications, nRec>>

\* ------------------------------------------------- PhonePe token manager
\* the grants the auth endpoint answers with: an access_token and its
\* expires_at
ExpiryOf(k) == 2 * k

Grants == {[access_token |-> k, expires_at |-> ExpiryOf(k)] : k \in 1..MaxGrants}

\* the validity test without the expiry
IsTokenValidWhenPresent(cache, current_time) == cache.token # 0

\* _is_token_valid
IsTokenValid(cache, current_time) ==
    IF cache.token = 0 THEN FALSE
    ELSE current_time < cache.expiry

\* the token stored, the expiry of the cache kept
StoreGrantTokenOnly(cache, auth_response) ==
    [token |-> auth_response.access_token, expiry |-> cache.expiry]

\* _get_auth_token, the two assignments after the response is validated:
\* no await stands between them
StoreGrant(cache, auth_response) ==
    [token |-> auth_response.access_token, expiry |-> auth_response.expires_at]

\* time.time() moves on
Tick ==
    /\ now < MaxNow
    /\ now' = now + 1
    /\ UNCHANGED <<tokCache, authCalls, caller, tokenFrame>>

\* _ensure_auth_token up to its first await: with a valid token it returns
\* at once and the caller builds its Authorization header from the cache;
\* otherwise _get_auth_token sends the grant request
EnsureAuthToken(c) ==
    /\ caller[c].at = "idle"
    /\ IF IsTokenValid(tokCache, now)
       THEN /\ caller' = [caller EXCEPT ![c] = [at |-> "ready", used |-> tokCache.token]]
            /\ UNCHANGED authCalls
       ELSE /\ authCalls < MaxAuthCalls
            /\ authCalls' = authCalls + 1
            /\ caller' = [caller EXCEPT ![c].at = "auth"]
    /\ UNCHANGED <<tokCache, now, tokenFrame>>

\* the auth endpoint answers 200 with a grant: the cache is replaced and the
\* caller goes on with the new token
AuthGranted(c, auth_response) ==
    /\ caller[c].at = "auth"
    /\ tokCache' = StoreGrant(tokCache, auth_response)
    /\ caller' = [caller EXCEPT ![c] = [at |-> "ready", used |-> tokCache'.token]]
    /\ UNCHANGED <<now, authCalls, tokenFrame>>

\* the grant is rejected, the transport fails or the body does not
\* validate: PhonePeError leaves _get_auth_token before the assignments
AuthFailed(c) ==
    /\ caller[c].at = "auth"
    /\ caller' = [caller EXCEPT ![c].at = "failed"]
    /\ UNCHANGED <<tokCache, now, authCalls, tokenFrame>>

\* the client operation of the caller ends
CallerEnds(c) ==
    /\ caller[c].at \in {"ready", "failed"}
    /\ caller' = [caller EXCEPT ![c] = IdleCaller]
    /\ UNCHANGED <<tokCache, now, authCalls, tokenFrame>>

NextToken ==
    \/ Tick
    \/ \E c \in Callers : EnsureAuthToken(c)
    \/ \E c \in Callers, g \in Grants : AuthGranted(c, g)
    \/ \E c \in Callers : AuthFailed(c)
    \/ \E c \in Callers : CallerEnds(c)

SpecToken == Init /\ [][NextToken]_vars

\* ------------------------------------------------- request end, cancelling
\* the response is sent and the session closed
Return(r) ==
    /\ pc[r] = "done"
    /\ pc' = [pc EXCEPT ![r] = "idle"]
    /\ req' = [req EXCEPT ![r] = IdleReq]
    /\ UNCHANGED <<tables, notifications, nRec>>

\* the task of the request is cancelled while it waits at an await: what it
\* committed stays, the rest of the handler does not run, the session closes
Cancel(r) ==
    /\ InFlight(r)
    /\ pc' = [pc EXCEPT ![r] = "idle"]
    /\ req' = [req EXCEPT ![r] = IdleReq]
    /\ UNCHANGED <<tables, notifications, nRec>>

\* --------------------------------------------------------- specifications
\* DonationRequest.email is validated and Donation.email is nullable=False:
\* every donation carries an address
Intake ==
    \E o \in Orders, p \in Providers : CreateDonation(o, p, TRUE)

\* a finished request returns before anything else moves: Return touches
\* nothing but the request's own record
NoneDone == \A q \in Reqs : pc[q] # "done"

\* requests overlap freely and may be cancelled
Next ==
    \/ NoneDone /\ Intake /\ UNCHANGED sideVars
    \/ \E r \in Reqs : NoneDone /\ \E o \in Orders : BeginCreatePhonePe(r, o) /\ UNCHANGED sideVars
    \/ \E r \in Reqs : NoneDone /\ \E ok \in BOOLEAN : CreatePhonePeCall(r, ok) /\ UNCHANGED sideVars
    \/ \E r \in Reqs : NoneDone /\ CreatePhonePeInsert(r) /\ UNCHANGED sideVars
    \/ \E r \in Reqs : NoneDone /\ \E o \in Orders : BeginCreateSbiePay(r, o) /\ UNCHANGED sideVars
    \/ \E r \in Reqs : NoneDone /\ CreateSbiePayInsert(r) /\ UNCHANGED sideVars
    \/ \E r \in Reqs : NoneDone /\ \E pkt \in Packets, order_id \in Orders \cup {"none"} : BeginHandle(r, pkt, order_id) /\ UNCHANGED sideVars
    \/ \E r \in Reqs : NoneDone /\ HandleSelect(r) /\ UNCHANGED sideVars
    \/ \E r \in Reqs : NoneDone /\ HandleCommit(r) /\ UNCHANGED sideVars
    \/ \E r \in Reqs : NoneDone /\ HandleRefresh(r) /\ UNCHANGED sideVars
    \/ \E r \in Reqs : NoneDone /\ \E o \in OrderIds : BeginVerify(r, o) /\ UNCHANGED sideVars
    \/ \E r \in Reqs : NoneDone /\ VerifySelect(r) /\ UNCHANGED sideVars
    \/ \E r \in Reqs : NoneDone /\ \E reply \in TxStatuses \cup {"raise"} : VerifyCall(r, reply) /\ UNCHANGED sideVars
    \/ \E r \in Reqs : NoneDone /\ VerifyCommit(r) /\ UNCHANGED sideVars
    \/ \E r \in Reqs : NoneDone /\ VerifyRefresh(r) /\ UNCHANGED sideVars
    \/ \E r \in Reqs : NoneDone /\ UpdateDonationSelect(r) /\ UNCHANGED sideVars
    \/ \E r \in Reqs : NoneDone /\ UpdateDonationCommit(r) /\ UNCHANGED sideVars
    \/ \E r \in Reqs : NoneDone /\ UpdateDonationRefresh(r) /\ UNCHANGED sideVars
    \/ \E r \in Reqs : NoneDone /\ \E o \in OrderIds : BeginPoll(r, o) /\ UNCHANGED sideVars
    \/ \E r \in Reqs : NoneDone /\ PollSelect(r) /\ UNCHANGED sideVars
    \/ \E r \in Reqs : NoneDone /\ \E state \in PhonePePaymentState \cup {"raise"}, pd \in BOOLEAN : PollCall(r, state, pd) /\ UNCHANGED sideVars
    \/ \E r \in Reqs : NoneDone /\ PollCommit(r) /\ UNCHANGED sideVars
    \/ \E r \in Reqs : NoneDone /\ PollRefresh(r) /\ UNCHANGED sideVars
    \/ \E r \in Reqs : NoneDone /\ PollDonationSelect(r) /\ UNCHANGED sideVars
    \/ \E r \in Reqs : NoneDone /\ PollDonationCommit(r) /\ UNCHANGED sideVars
    \/ \E r \in Reqs : NoneDone /\ PollDonationRefresh(r) /\ UNCHANGED sideVars
    \/ \E r \in Reqs : NoneDone /\ \E outcome \in NotifyOutcomes : SendThankYouSafe(r, outcome) /\ UNCHANGED sideVars
    \/ \E r \in Reqs : NoneDone /\ Cancel(r) /\ UNCHANGED sideVars
    \/ \E r \in Reqs : Return(r) /\ UNCHANGED sideVars

Spec == Init /\ [][Next]_vars

\* requests overlap freely, none is cancelled
NextRace ==
    \/ NoneDone /\ Intake /\ UNCHANGED sideVars
    \/ \E r \in Reqs : NoneDone /\ \E o \in Orders : BeginCreatePhonePe(r, o) /\ UNCHANGED sideVars
    \/ \E r \in Reqs : NoneDone /\ \E ok \in BOOLEAN : CreatePhonePeCall(r, ok) /\ UNCHANGED sideVars
    \/ \E r \in Reqs : NoneDone /\ CreatePhonePeInsert(r) /\ UNCHANGED sideVars
    \/ \E r \in Reqs : NoneDone /\ \E o \in Orders : BeginCreateSbiePay(r, o) /\ UNCHANGED sideVars
    \/ \E r \in Reqs : NoneDone /\ CreateSbiePayInsert(r) /\ UNCHANGED sideVars
    \/ \E r \in Reqs : NoneDone /\ \E pkt \in Packets, order_id \in Orders \cup {"none"} : BeginHandle(r, pkt, order_id) /\ UNCHANGED sideVars
    \/ \E r \in Reqs : NoneDone /\ HandleSelect(r) /\ UNCHANGED sideVars
    \/ \E r \in Reqs : NoneDone /\ HandleCommit(r) /\ UNCHANGED sideVars
    \/ \E r \in Reqs : NoneDone /\ HandleRefresh(r) /\ UNCHANGED sideVars
    \/ \E r \in Reqs : NoneDone /\ \E o \in OrderIds : BeginVerify(r, o) /\ UNCHANGED sideVars
    \/ \E r \in Reqs : NoneDone /\ VerifySelect(r) /\ UNCHANGED sideVars
    \/ \E r \in Reqs : NoneDone /\ \E reply \in TxStatuses \cup {"raise"} : VerifyCall(r, reply) /\ UNCHANGED sideVars
    \/ \E r \in Reqs : NoneDone /\ VerifyCommit(r) /\ UNCHANGED sideVars
    \/ \E r \in Reqs : NoneDone /\ VerifyRefresh(r) /\ UNCHANGED sideVars
    \/ \E r \in Reqs : NoneDone /\ UpdateDonationSelect(r) /\ UNCHANGED sideVars
    \/ \E r \in Reqs : NoneDone /\ UpdateDonationCommit(r) /\ UNCHANGED sideVars
    \/ \E r \in Reqs : NoneDone /\ UpdateDonationRefresh(r) /\ UNCHANGED sideVars
    \/ \E r \in Reqs : NoneDone /\ \E o \in OrderIds : BeginPoll(r, o) /\ UNCHANGED sideVars
    \/ \E r \in Reqs : NoneDone /\ PollSelect(r) /\ UNCHANGED sideVars
    \/ \E r \in Reqs : NoneDone /\ \E state \in PhonePePaymentState \cup {"raise"}, pd \in BOOLEAN : PollCall(r, state, pd) /\ UNCHANGED sideVars
    \/ \E r \in Reqs : NoneDone /\ PollCommit(r) /\ UNCHANGED sideVars
    \/ \E r \in Reqs : NoneDone /\ PollRefresh(r) /\ UNCHANGED sideVars
    \/ \E r \in Reqs : NoneDone /\ PollDonationSelect(r) /\ UNCHANGED sideVars
    \/ \E r \in Reqs : NoneDone /\ PollDonationCommit(r) /\ UNCHANGED sideVars
    \/ \E r \in Reqs : NoneDone /\ PollDonationRefresh(r) /\ UNCHANGED sideVars
    \/ \E r \in Reqs : NoneDone /\ \E outcome \in NotifyOutcomes : SendThankYouSafe(r, outcome) /\ UNCHANGED sideVars
    \/ \E r \in Reqs : Return(r) /\ UNCHANGED sideVars

SpecRace == Init /\ [][NextRace]_vars

\* r moves only while every other request is idle
Alone(r) == NoneDone /\ \A q \in Reqs \ {r} : pc[q] = "idle"

\* one request at a time, each runs to its end
NextSerial ==
    \/ NoneDone /\ Intake /\ UNCHANGED sideVars
    \/ \E r \in Reqs : Alone(r) /\ \E o \in Orders : BeginCreatePhonePe(r, o) /\ UNCHANGED sideVars
    \/ \E r \in Reqs : Alone(r) /\ \E ok \in BOOLEAN : CreatePhonePeCall(r, ok) /\ UNCHANGED sideVars
    \/ \E r \in Reqs : Alone(r) /\ CreatePhonePeInsert(r) /\ UNCHANGED sideVars
    \/ \E r \in Reqs : Alone(r) /\ \E o \in Orders : BeginCreateSbiePay(r, o) /\ UNCHANGED sideVars
    \/ \E r \in Reqs : Alone(r) /\ CreateSbiePayInsert(r) /\ UNCHANGED sideVars
    \/ \E r \in Reqs : Alone(r) /\ \E pkt \in Packets, order_id \in Orders \cup {"none"} : BeginHandle(r, pkt, order_id) /\ UNCHANGED sideVars
    \/ \E r \in Reqs : Alone(r) /\ HandleSelect(r) /\ UNCHANGED sideVars
    \/ \E r \in Reqs : Alone(r) /\ HandleCommit(r) /\ UNCHANGED sideVars
    \/ \E r \in Reqs : Alone(r) /\ HandleRefresh(r) /\ UNCHANGED sideVars
    \/ \E r \in Reqs : Alone(r) /\ \E o \in OrderIds : BeginVerify(r, o) /\ UNCHANGED sideVars
    \/ \E r \in Reqs : Alone(r) /\ VerifySelect(r) /\ UNCHANGED sideVars
    \/ \E r \in Reqs : Alone(r) /\ \E reply \in TxStatuses \cup {"raise"} : VerifyCall(r, reply) /\ UNCHANGED sideVars
    \/ \E r \in Reqs : Alone(r) /\ VerifyCommit(r) /\ UNCHANGED sideVars
    \/ \E r \in Reqs : Alone(r) /\ VerifyRefresh(r) /\ UNCHANGED sideVars
    \/ \E r \in Reqs : Alone(r) /\ UpdateDonationSelect(r) /\ UNCHANGED sideVars
    \/ \E r \in Reqs : Alone(r) /\ UpdateDonationCommit(r) /\ UNCHANGED sideVars
    \/ \E r \in Reqs : Alone(r) /\ UpdateDonationRefresh(r) /\ UNCHANGED sideVars
    \/ \E r \in Reqs : Alone(r) /\ \E o \in OrderIds : BeginPoll(r, o) /\ UNCHANGED sideVars
    \/ \E r \in Reqs : Alone(r) /\ PollSelect(r) /\ UNCHANGED sideVars
    \/ \E r \in Reqs : Alone(r) /\ \E state \in PhonePePaymentState \cup {"raise"}, pd \in BOOLEAN : PollCall(r, state, pd) /\ UNCHANGED sideVars
    \/ \E r \in Reqs : Alone(r) /\ PollCommit(r) /\ UNCHANGED sideVars
    \/ \E r \in Reqs : Alone(r) /\ PollRefresh(r) /\ UNCHANGED sideVars
    \/ \E r \in Reqs : Alone(r) /\ PollDonationSelect(r) /\ UNCHANGED sideVars
    \/ \E r \in Reqs : Alone(r) /\ PollDonationCommit(r) /\ UNCHANGED sideVars
    \/ \E r \in Reqs : Alone(r) /\ PollDonationRefresh(r) /\ UNCHANGED sideVars
    \/ \E r \in Reqs : Alone(r) /\ \E outcome \in NotifyOutcomes : SendThankYouSafe(r, outcome) /\ UNCHANGED sideVars
    \/ \E r \in Reqs : Return(r) /\ UNCHANGED sideVars

SpecSerial == Init /\ [][NextSerial]_vars

\* transaction_status values beyond TxStatuses: the second spelling of a
\* failure, other words of the gateway, another case, the empty field
RawStatuses == {"FAIL", "PENDING", "BOOKED", "success", ""}

WidePackets == {[kind |-> "ok", order |-> o, ts |-> t] : o \in Orders, t \in RawStatuses}

\* one request at a time, the gateway reporting any transaction_status
NextMapping ==
    \/ NoneDone /\ Intake /\ UNCHANGED sideVars
    \/ \E r \in Reqs : Alone(r) /\ \E o \in Orders : BeginCreatePhonePe(r, o) /\ UNCHANGED sideVars
    \/ \E r \in Reqs : Alone(r) /\ \E ok \in BOOLEAN : CreatePhonePeCall(r, ok) /\ UNCHANGED sideVars
    \/ \E r \in Reqs : Alone(r) /\ CreatePhonePeInsert(r) /\ UNCHANGED sideVars
    \/ \E r \in Reqs : Alone(r) /\ \E o \in Orders : BeginCreateSbiePay(r, o) /\ UNCHANGED sideVars
    \/ \E r \in Reqs : Alone(r) /\ CreateSbiePayInsert(r) /\ UNCHANGED sideVars
    \/ \E r \in Reqs : Alone(r) /\ \E pkt \in Packets \cup WidePackets, order_id \in Orders \cup {"none"} : BeginHandle(r, pkt, order_id) /\ UNCHANGED sideVars
    \/ \E r \in Reqs : Alone(r) /\ HandleSelect(r) /\ UNCHANGED sideVars
    \/ \E r \in Reqs : Alone(r) /\ HandleCommit(r) /\ UNCHANGED sideVars
    \/ \E r \in Reqs : Alone(r) /\ HandleRefresh(r) /\ UNCHANGED sideVars
    \/ \E r \in Reqs : Alone(r) /\ \E o \in OrderIds : BeginVerify(r, o) /\ UNCHANGED sideVars
    \/ \E r \in Reqs : Alone(r) /\ VerifySelect(r) /\ UNCHANGED sideVars
    \/ \E r \in Reqs : Alone(r) /\ \E reply \in TxStatuses \cup RawStatuses \cup {"raise"} : VerifyCall(r, reply) /\ UNCHANGED sideVars
    \/ \E r \in Reqs : Alone(r) /\ VerifyCommit(r) /\ UNCHANGED sideVars
    \/ \E r \in Reqs : Alone(r) /\ VerifyRefresh(r) /\ UNCHANGED sideVars
    \/ \E r \in Reqs : Alone(r) /\ UpdateDonationSelect(r) /\ UNCHANGED sideVars
    \/ \E r \in Reqs : Alone(r) /\ UpdateDonationCommit(r) /\ UNCHANGED sideVars
    \/ \E r \in Reqs : Alone(r) /\ UpdateDonationRefresh(r) /\ UNCHANGED sideVars
    \/ \E r \in Reqs : Alone(r) /\ \E o \in OrderIds : BeginPoll(r, o) /\ UNCHANGED sideVars
    \/ \E r \in Reqs : Alone(r) /\ PollSelect(r) /\ UNCHANGED sideVars
    \/ \E r \in Reqs : Alone(r) /\ \E state \in PhonePePaymentState \cup {"raise"}, pd \in BOOLEAN : PollCall(r, state, pd) /\ UNCHANGED sideVars
    \/ \E r \in Reqs : Alone(r) /\ PollCommit(r) /\ UNCHANGED sideVars
    \/ \E r \in Reqs : Alone(r) /\ PollRefresh(r) /\ UNCHANGED sideVars
    \/ \E r \in Reqs : Alone(r) /\ PollDonationSelect(r) /\ UNCHANGED sideVars
    \/ \E r \in Reqs : Alone(r) /\ PollDonationCommit(r) /\ UNCHANGED sideVars
    \/ \E r \in Reqs : Alone(r) /\ PollDonationRefresh(r) /\ UNCHANGED sideVars
    \/ \E r \in Reqs : Alone(r) /\ \E outcome \in NotifyOutcomes : SendThankYouSafe(r, outcome) /\ UNCHANGED sideVars
    \/ \E r \in Reqs : Return(r) /\ UNCHANGED sideVars

SpecMapping == Init /\ [][NextMapping]_vars

\* ------------------------------------------------ SBIePay response codec
\* _unpad: the length of byte_array[0:-last_byte] for a body of `length`
\* bytes; a last byte of 0 or of at least the length leaves nothing
Unpad(length, last_byte) ==
    IF last_byte = 0 \/ last_byte >= length THEN 0 ELSE length - last_byte

\* length of the text _decrypt returns for a packet it accepts
TextLength(message) == Unpad(message.size - BLOCK_SIZE, message.pad)

\* the exception raised inside the try of _decrypt, "none" without one:
\* base64.b64decode, AES.new with the IV, cipher.decrypt, _unpad, decode
DecryptFault(message) ==
    IF ~message.b64 THEN "binascii.Error"
    ELSE IF message.size < BLOCK_SIZE THEN "ValueError"
    ELSE IF (message.size - BLOCK_SIZE) % BLOCK_SIZE # 0 THEN "ValueError"
    ELSE IF message.size = BLOCK_SIZE THEN "IndexError"
    ELSE IF TextLength(message) > 0 /\ ~message.utf8 THEN "UnicodeDecodeError"
    ELSE "none"

\* _decrypt: `except Exception` turns every fault into SbiePayError
Decrypt(message) ==
    IF DecryptFault(message) = "none" THEN "none" ELSE "SbiePayError"

\* len(decrypted_string.split("|")): the empty text splits into one field
FieldCount(message) ==
    IF TextLength(message) = 0 THEN 1 ELSE message.pipes + 1

\* the exception raised while SbiePayResponseData is built: the arguments
\* are evaluated in order, response_fields[3] goes through Decimal
ParseFault(message) ==
    IF FieldCount(message) < 4 THEN "IndexError"
    ELSE IF message.amount # "numeric" THEN "decimal.InvalidOperation"
    ELSE IF FieldCount(message) < MinFields THEN "IndexError"
    ELSE "none"

\* the except clauses with the second one missing: what is not
\* SbiePayError leaves handle_payment_response as it is
HandleCatchTypedOnly(exc) ==
    IF exc = "SbiePayError" THEN [status |-> "error", raised |-> "none"]
    ELSE [status |-> "none", raised |-> exc]

\* the except clauses of handle_payment_response: SbiePayError is answered
\* with status "error", every other exception is raised as SbiePayError
HandleCatch(exc) ==
    IF exc = "SbiePayError" THEN [status |-> "error", raised |-> "none"]
    ELSE [status |-> "none", raised |-> "SbiePayError"]

\* handle_payment_response
HandlePaymentResponse(message) ==
    IF Decrypt(message) # "none" THEN HandleCatch(Decrypt(message))
    ELSE IF ParseFault(message) # "none" THEN HandleCatch(ParseFault(message))
    ELSE [status |-> "success", raised |-> "none"]

\* ------------------------------------------------------- payments router
Ack(status) == [kind |-> "ack", status |-> status]

Redirect(status) == [kind |-> "redirect", status |-> status]

Propagated(exc) == [kind |-> "exception", status |-> exc]

\* what an endpoint answers when exc is raised in its body: the SBIePay
\* endpoints wrap the body in try / except Exception, phonepe_redirect has
\* no try
EndpointCatch(endpoint, exc) ==
    IF endpoint = "sbiepay_pushresponse" THEN Ack("error")
    ELSE IF endpoint \in SbiePayRedirects THEN Redirect("error")
    ELSE Propagated(exc)

Replies(reply) == hook' = [hook EXCEPT !.at = "done", !.reply = reply]

Raises(exc) == Replies(EndpointCatch(hook.endpoint, exc))

\* what the form of a delivery holds: the packet, no packet, or a body
\* request.form() cannot parse
Arrivals ==
    {[given |-> "present", message |-> m] : m \in Messages}
    \cup {[given |-> g, message |-> NoMessage] : g \in {"absent", "unreadable"}}

\* the gateway (or the donor's browser it redirected) calls an endpoint
Deliver(e, arrival) ==
    /\ hook.at = "idle"
    /\ hook' = [IdleHook EXCEPT !.at = "form", !.endpoint = e,
                                !.given = arrival.given, !.message = arrival.message]
    /\ UNCHANGED hookFrame

\* phonepe_redirect is called with the order id in the query
DeliverPhonePe(o) ==
    /\ hook.at = "idle"
    /\ hook' = [IdleHook EXCEPT !.at = "status", !.endpoint = "phonepe_redirect",
                                !.given = "present",
                                !.message = [NoMessage EXCEPT !.order = o]]
    /\ UNCHANGED hookFrame

\* await request.form() and form_data.get: without a packet
\* sbiepay_pushresponse returns the error body, the redirect callbacks
\* raise InvalidRequestException
ReadForm ==
    /\ hook.at = "form"
    /\ IF hook.given = "unreadable" THEN Raises("MultiPartException")
       ELSE IF hook.given = "absent"
       THEN IF hook.endpoint = "sbiepay_pushresponse" THEN Replies(Ack("error"))
            ELSE Raises("InvalidRequestException")
       ELSE hook' = [hook EXCEPT !.at = "handle"]
    /\ UNCHANGED hookFrame

\* handle_sbiepay_response up to the lookup: the client decodes the packet;
\* status "error" is raised as InvalidRequestException
HandleResponse ==
    /\ hook.at = "handle"
    /\ LET res == HandlePaymentResponse(hook.message) IN
       IF res.raised # "none"
       THEN hook' = [hook EXCEPT !.at = "done", !.client = res,
                                 !.reply = EndpointCatch(hook.endpoint, res.raised)]
       ELSE IF res.status # "success"
       THEN hook' = [hook EXCEPT !.at = "done", !.client = res,
                         !.reply = EndpointCatch(hook.endpoint, "InvalidRequestException")]
       ELSE hook' = [hook EXCEPT !.at = "lookup", !.client = res]
    /\ UNCHANGED hookFrame

ServiceOutcomes == {"returned", "InvalidRequestException", "SQLAlchemyError"}

\* the rest of handle_sbiepay_response: it returns the log, finds none, or
\* the database fails
HandleLookup(outcome) ==
    /\ hook.at = "lookup"
    /\ outcome = "returned" => hook.message.order \in Orders
    /\ IF outcome # "returned" THEN Raises(outcome)
       ELSE IF hook.endpoint = "sbiepay_pushresponse"
       THEN hook' = [hook EXCEPT !.at = "verify"]
       ELSE Replies(Redirect("ok"))
    /\ UNCHANGED hookFrame

\* sbiepay_pushresponse goes on with verify_sbiepay_transaction
VerifyTransaction(outcome) ==
    /\ hook.at = "verify"
    /\ IF outcome = "returned" THEN Replies(Ack("success")) ELSE Raises(outcome)
    /\ UNCHANGED hookFrame

\* phonepe_redirect: get_payment_status, then the redirect
PhonePeStatus(outcome) ==
    /\ hook.at = "status"
    /\ outcome = "returned" => hook.message.order \in Orders
    /\ IF outcome = "returned" THEN Replies(Redirect("ok")) ELSE Raises(outcome)
    /\ UNCHANGED hookFrame

\* the reply is sent
Collect ==
    /\ hook.at = "done"
    /\ hook' = IdleHook
    /\ UNCHANGED hookFrame

NextWebhook ==
    \/ \E e \in Endpoints \ {"phonepe_redirect"}, arrival \in Arrivals : Deliver(e, arrival)
    \/ \E o \in OrderIds : DeliverPhonePe(o)
    \/ ReadForm
    \/ HandleResponse
    \/ \E outcome \in ServiceOutcomes : HandleLookup(outcome)
    \/ \E outcome \in ServiceOutcomes \cup {"SbiePayError"} : VerifyTransaction(outcome)
    \/ \E outcome \in ServiceOutcomes \cup {"PhonePeError"} : PhonePeStatus(outcome)
    \/ Collect

SpecWebhook == Init /\ [][NextWebhook]_vars

\* ------------------------------------------------------- gateway clients
Limb == 2^18

\* amount * 100 in IEEE double arithmetic: the 53-bit mantissa times 100,
\* rounded to 53 bits (to nearest, ties to even), whole when the product
\* has no fractional part, value its integer part
TimesHundred(amount) ==
    LET m == amount.mantissa
        p0 == m[1] * 100
        p1 == m[2] * 100 + p0 \div Limb
        p2 == m[3] * 100 + p1 \div Limb
        q0 == p0 % Limb
        q1 == p1 % Limb
        q2 == p2 % Limb
        q3 == p2 \div Limb
        k == IF q3 >= 32 THEN 7 ELSE 6
        rem == q0 % 2^k
        half == 2^(k - 1)
        up == rem > half \/ (rem = half /\ (q0 \div 2^k) % 2 = 1)
        r0 == q0 - rem + (IF up THEN 2^k ELSE 0)
        r1 == q1 + r0 \div Limb
        r2 == q2 + r1 \div Limb
        n3 == q3 + r2 \div Limb
        frac == 2^(16 - amount.exponent)
    IN [whole |-> r0 % Limb = 0 /\ r1 % Limb = 0 /\ (r2 % Limb) % frac = 0,
        value |-> (r2 % Limb) \div frac + n3 * 2^(amount.exponent + 2)]

\* f"{amount}": the shortest decimal that reads back as the float, which for
\* an amount written with two decimals is that amount
FormatFloat(amount) == amount.cents

PhonePeError(text, status_code, response_data) ==
    [type |-> "PhonePeError", status_code |-> status_code,
     response_data |-> response_data, text |-> text]

SbiePayError(text) ==
    [type |-> "SbiePayError", status_code |-> 0, response_data |-> FALSE, text |-> text]

\* `except Exception` of _make_request: it also catches the PhonePeError
\* raised for a reply that is not 200 and raises a new one from its message
MakeRequestCatch(exc) == PhonePeError(exc.text, 0, FALSE)

\* `except Exception` of create_payment and of get_order_status
OperationCatch(exc) == PhonePeError(exc.text, 0, FALSE)

HttpStatuses == {200, 400, 500}

\* what the gateway answers: a JSON body (that the response model accepts
\* or not), a body that is not JSON, or nothing (transport failure)
HttpReplies ==
    {[kind |-> "json", status |-> c, valid |-> v] : c \in HttpStatuses, v \in BOOLEAN}
    \cup {[kind |-> "not_json", status |-> c, valid |-> FALSE] : c \in HttpStatuses}
    \cup {[kind |-> "transport", status |-> 0, valid |-> FALSE]}

\* _make_request: the JSON of a 200 reply; None after a body that is not
\* JSON; PhonePeError otherwise
MakeRequest(reply) ==
    IF reply.kind = "transport"
    THEN [data |-> "none", error |-> PhonePeError("Network error", 0, FALSE)]
    ELSE IF reply.kind = "not_json"
    THEN [data |-> "none", error |-> NoError]
    ELSE IF reply.status = 200
    THEN [data |-> "json", error |-> NoError]
    ELSE [data |-> "none",
          error |-> MakeRequestCatch(
                        PhonePeError("API request failed", reply.status, TRUE))]

\* the payment log the service adds after the client call
CreatedLogMinorUnits(amount) == [status |-> "pending", amount |-> amount.cents * 100]

CreatedLog(amount) == [status |-> "pending", amount |-> amount.cents]

Fails(exc) == gw' = [gw EXCEPT !.at = "done", !.error = exc]

\* DonationService calls create_phonepe_payment or create_sbiepay_payment
\* with the amount of the donation
StartCreate(provider, amount) ==
    /\ gw.at = "idle"
    /\ gw' = [IdleGw EXCEPT !.at = IF provider = "phonepe" THEN "token" ELSE "encrypt",
                            !.provider = provider, !.op = "create", !.amount = amount]
    /\ UNCHANGED gwFrame

\* get_phonepe_payment_status calls phonepe_client.get_order_status
StartStatus ==
    /\ gw.at = "idle"
    /\ gw' = [IdleGw EXCEPT !.at = "token", !.provider = "phonepe", !.op = "status"]
    /\ UNCHANGED gwFrame

\* await self._ensure_auth_token(): it returns or raises PhonePeError; the
\* status call then sends its request
ClientAuth(ok) ==
    /\ gw.at = "token"
    /\ IF ~ok THEN Fails(OperationCatch(PhonePeError("Authentication failed", 0, FALSE)))
       ELSE IF gw.op = "create" THEN gw' = [gw EXCEPT !.at = "build"]
       ELSE gw' = [gw EXCEPT !.at = "http", !.calls = @ + 1]
    /\ UNCHANGED gwFrame

\* CreatePaymentRequest(amount=amount * 100, ...): the int field takes a
\* float without fractional part and rejects any other; then the request
\* is sent
BuildRequest ==
    /\ gw.at = "build"
    /\ LET product == TimesHundred(gw.amount) IN
       IF product.whole
       THEN gw' = [gw EXCEPT !.at = "http", !.body = product.value, !.calls = @ + 1]
       ELSE Fails(OperationCatch(PhonePeError("validation error", 0, FALSE)))
    /\ UNCHANGED gwFrame

\* the reply of the gateway goes through _make_request and the response
\* model
HttpReply(reply) ==
    /\ gw.at = "http"
    /\ LET res == MakeRequest(reply)
           seen == [gw EXCEPT !.reply = reply.kind, !.status = reply.status]
       IN IF res.error # NoError
          THEN gw' = [seen EXCEPT !.at = "done", !.error = OperationCatch(res.error)]
          ELSE IF res.data = "none" \/ ~reply.valid
          THEN gw' = [seen EXCEPT !.at = "done",
                   !.error = OperationCatch(PhonePeError("validation error", 0, FALSE))]
          ELSE IF gw.op = "create" THEN gw' = [seen EXCEPT !.at = "insert"]
          ELSE gw' = [seen EXCEPT !.at = "done", !.result = "status"]
    /\ UNCHANGED gwFrame

\* sbiepay_client.create_payment: the packet with the amount is built and
\* encrypted in the process; _encrypt raises SbiePayError when the cipher
\* fails
EncryptPacket(ok) ==
    /\ gw.at = "encrypt"
    /\ IF ok THEN gw' = [gw EXCEPT !.at = "insert", !.packet = FormatFloat(gw.amount)]
       ELSE Fails(SbiePayError("Encryption failed"))
    /\ UNCHANGED gwFrame

\* session.add(payment_log), commit, refresh
InsertLog ==
    /\ gw.at = "insert"
    /\ gw' = [gw EXCEPT !.at = "done", !.result = "log", !.log = CreatedLog(gw.amount)]
    /\ UNCHANGED gwFrame

GwReturn ==
    /\ gw.at = "done"
    /\ gw' = IdleGw
    /\ UNCHANGED gwFrame

NextCreate ==
    \/ \E provider \in Providers, amount \in Amounts : StartCreate(provider, amount)
    \/ StartStatus
    \/ \E ok \in BOOLEAN : ClientAuth(ok)
    \/ BuildRequest
    \/ \E reply \in HttpReplies : HttpReply(reply)
    \/ \E ok \in BOOLEAN : EncryptPacket(ok)
    \/ InsertLog
    \/ GwReturn

SpecCreate == Init /\ [][NextCreate]_vars

\* ------------------------------------------- SBIePay codec, both directions
\* code points of the characters of a field: two control characters whose
\* bytes look like pad bytes, a letter, and a letter of two UTF-8 bytes
Chars == {1, 16, 97, 233}

Pipe == 124

\* the longest field, and the number of fields of a packet
MaxFieldLen == 17

MaxFields == 2

\* ch repeated n times
Repeat(ch, n) == [i \in 1..n |-> ch]

FieldLens == {0, 1, 15, 16, MaxFieldLen}

FieldTexts == {Repeat(ch, n) : ch \in Chars, n \in FieldLens}

FieldTuples == UNION {[1..k -> FieldTexts] : k \in 1..MaxFields}

RECURSIVE Join(_)
\* "|".join(fields)
Join(fields) ==
    IF Len(fields) = 1 THEN fields[1]
    ELSE fields[1] \o <<Pipe>> \o Join(Tail(fields))

RECURSIVE Split(_, _)
\* text.split("|"), cur the field being read
Split(text, cur) ==
    IF text = <<>> THEN <<cur>>
    ELSE IF Head(text) = Pipe THEN <<cur>> \o Split(Tail(text), <<>>)
    ELSE Split(Tail(text), Append(cur, Head(text)))

RECURSIVE EncodeUtf8(_)
\* str.encode("UTF-8") for code points below 2048
EncodeUtf8(text) ==
    IF text = <<>> THEN <<>>
    ELSE (IF Head(text) < 128 THEN <<Head(text)>>
          ELSE <<192 + Head(text) \div 64, 128 + (Head(text) % 64)>>)
         \o EncodeUtf8(Tail(text))

RECURSIVE DecodeUtf8(_)
\* bytes.decode("UTF-8"); <<-1>> stands for an exception, UnicodeDecodeError
\* or the one that left no bytes to decode
DecodeUtf8(byte_array) ==
    IF byte_array = <<>> THEN <<>>
    ELSE IF Head(byte_array) < 0 THEN <<-1>>
    ELSE IF Head(byte_array) < 128
    THEN LET rest == DecodeUtf8(Tail(byte_array)) IN
         IF rest = <<-1>> THEN rest ELSE <<Head(byte_array)>> \o rest
    ELSE IF /\ Head(byte_array) \in 194..223
            /\ Len(byte_array) >= 2
            /\ byte_array[2] \in 128..191
    THEN LET rest == DecodeUtf8(Tail(Tail(byte_array))) IN
         IF rest = <<-1>> THEN rest
         ELSE <<(Head(byte_array) - 192) * 64 + (byte_array[2] - 128)>> \o rest
    ELSE <<-1>>

\* the padding that adds nothing to a whole number of blocks
PadToBlockOnly(byte_array) ==
    LET pad_len == (BLOCK_SIZE - (Len(byte_array) % BLOCK_SIZE)) % BLOCK_SIZE
    IN byte_array \o Repeat(pad_len, pad_len)

\* _pad
Pad(byte_array) ==
    LET pad_len == BLOCK_SIZE - (Len(byte_array) % BLOCK_SIZE)
    IN byte_array \o Repeat(pad_len, pad_len)

\* _unpad: byte_array[0:-last_byte]; <<-1>> stands for the IndexError of
\* byte_array[-1] on no bytes
Unpadded(byte_array) ==
    IF byte_array = <<>> THEN <<-1>>
    ELSE LET last_byte == byte_array[Len(byte_array)]
         IN IF last_byte = 0 \/ last_byte >= Len(byte_array) THEN <<>>
            ELSE SubSeq(byte_array, 1, Len(byte_array) - last_byte)

\* the block cipher under the configured key, stood for by a keyed
\* permutation of the blocks and its inverse
KeyByte == 37

EncryptBlock(block) == [i \in 1..BLOCK_SIZE |-> (block[(i % BLOCK_SIZE) + 1] + KeyByte) % 256]

DecryptBlock(block) ==
    [i \in 1..BLOCK_SIZE |-> (block[((i + BLOCK_SIZE - 2) % BLOCK_SIZE) + 1] + 256 - KeyByte) % 256]

\* the chaining of CBC, addition of bytes standing for their exclusive or
Mix(block, prev) == [i \in 1..BLOCK_SIZE |-> (block[i] + prev[i]) % 256]

Unmix(block, prev) == [i \in 1..BLOCK_SIZE |-> (block[i] + 256 - prev[i]) % 256]

RECURSIVE CbcEncrypt(_, _)
\* AES.new(key, MODE_CBC, iv).encrypt(padded)
CbcEncrypt(padded, prev) ==
    IF padded = <<>> THEN <<>>
    ELSE LET c == EncryptBlock(Mix(SubSeq(padded, 1, BLOCK_SIZE), prev))
         IN c \o CbcEncrypt(SubSeq(padded, BLOCK_SIZE + 1, Len(padded)), c)

RECURSIVE CbcDecrypt(_, _)
\* AES.new(key, MODE_CBC, iv).decrypt(messagebytes)
CbcDecrypt(messagebytes, prev) ==
    IF messagebytes = <<>> THEN <<>>
    ELSE LET c == SubSeq(messagebytes, 1, BLOCK_SIZE)
         IN Unmix(DecryptBlock(c), prev)
            \o CbcDecrypt(SubSeq(messagebytes, BLOCK_SIZE + 1, Len(messagebytes)), c)

RECURSIVE B64Encode(_)
\* base64.b64encode as the sequence of its 6-bit digits, 64 for "="
B64Encode(byte_array) ==
    IF byte_array = <<>> THEN <<>>
    ELSE IF Len(byte_array) = 1
    THEN <<byte_array[1] \div 4, (byte_array[1] % 4) * 16, 64, 64>>
    ELSE IF Len(byte_array) = 2
    THEN <<byte_array[1] \div 4,
           (byte_array[1] % 4) * 16 + byte_array[2] \div 16,
           (byte_array[2] % 16) * 4, 64>>
    ELSE <<byte_array[1] \div 4,
           (byte_array[1] % 4) * 16 + byte_array[2] \div 16,
           (byte_array[2] % 16) * 4 + byte_array[3] \div 64,
           byte_array[3] % 64>>
         \o B64Encode(SubSeq(byte_array, 4, Len(byte_array)))

RECURSIVE B64Decode(_)
\* base64.b64decode of a padded text
B64Decode(digits) ==
    IF digits = <<>> THEN <<>>
    ELSE LET b1 == digits[1] * 4 + digits[2] \div 16
             b2 == (digits[2] % 16) * 16 + digits[3] \div 4
             b3 == (digits[3] % 4) * 64 + digits[4]
         IN IF digits[3] = 64 THEN <<b1>>
            ELSE IF digits[4] = 64 THEN <<b1, b2>>
            ELSE <<b1, b2, b3>> \o B64Decode(SubSeq(digits, 5, Len(digits)))

\* os.urandom(AES.block_size)
Ivs == {Repeat(0, BLOCK_SIZE), [i \in 1..BLOCK_SIZE |-> 16 * i - 1]}

\* _encrypt of the UTF-8 bytes of the packet
Encrypt(byte_array, iv) == B64Encode(iv \o CbcEncrypt(Pad(byte_array), iv))

\* _decrypt up to the unpadding
DecryptBytes(message) ==
    LET byte_array == B64Decode(message)
        iv == SubSeq(byte_array, 1, BLOCK_SIZE)
        messagebytes == SubSeq(byte_array, BLOCK_SIZE + 1, Len(byte_array))
    IN Unpadded(CbcDecrypt(messagebytes, iv))

\* a packet of fields is joined and encrypted
EncodeFields(fields, iv) ==
    /\ trip.at = "idle"
    /\ LET byte_array == EncodeUtf8(Join(fields)) IN
       trip' = [IdleTrip EXCEPT !.at = "sent", !.fields = fields, !.bytes = byte_array,
                                !.unpadded = Unpadded(Pad(byte_array)),
                                !.message = Encrypt(byte_array, iv)]
    /\ UNCHANGED tripFrame

\* the packet is decrypted and split
DecodeFields ==
    /\ trip.at = "sent"
    /\ trip' = [trip EXCEPT !.at = "received",
                            !.out = Split(DecodeUtf8(DecryptBytes(trip.message)), <<>>)]
    /\ UNCHANGED tripFrame

ForgetTrip ==
    /\ trip.at = "received"
    /\ trip' = IdleTrip
    /\ UNCHANGED tripFrame

NextCodec ==
    \/ \E fields \in FieldTuples, iv \in Ivs : EncodeFields(fields, iv)
    \/ DecodeFields
    \/ ForgetTrip

SpecCodec == Init /\ [][NextCodec]_vars

\* ------------------------------------- retry of the email, donation reads
\* the attributes the Donation class declares
DonationColumns ==
    {"id", "order_id", "full_name", "email", "contact_number", "amount",
     "need_g80_certificate", "confirmed_terms", "status", "g80_certificate"}

\* reading an attribute the class does not declare raises AttributeError
HasAttribute(name) == name \in DonationColumns

\* the body of retry_failed_email inside its try: result is the value
\* returned, sent tells whether _send_donation_thank_you_email reached the
\* notification service.  donation.email is read before the test for a
\* missing donation, so None raises AttributeError there; every exception
\* ends in the except branch, which returns False
RetryFailedEmail(donation, sbiRows, phonepeRows, outcome) ==
    IF donation = NoDonation THEN [result |-> FALSE, sent |-> FALSE]
    ELSE IF ~donation.email THEN [result |-> TRUE, sent |-> FALSE]
    ELSE IF donation.status # "completed" THEN [result |-> FALSE, sent |-> FALSE]
    ELSE IF ~HasAttribute("payment_provider") THEN [result |-> FALSE, sent |-> FALSE]
    ELSE LET payment_log == IF donation.provider = "phonepe" THEN phonepeRows
                            ELSE IF donation.provider = "sbiepay" THEN sbiRows
                            ELSE <<>>
         IN IF payment_log = <<>> THEN [result |-> FALSE, sent |-> FALSE]
            ELSE [result |-> outcome # "raise", sent |-> TRUE]

BeginRetry(r, donation_id) ==
    /\ pc[r] = "idle"
    /\ pc' = [pc EXCEPT ![r] = "re_run"]
    /\ req' = [req EXCEPT ![r] = BeginRecord(r, "retry", donation_id)]
    /\ UNCHANGED <<tables, notifications, nRec>>

\* a retry that also puts the donation back to pending
RetryRunResetting(r, outcome) ==
    /\ pc[r] = "re_run"
    /\ outcome = "sent"
    /\ req[r].order \in Orders
    /\ donations' = [donations EXCEPT ![req[r].order].status =
           IF @ = "none" THEN @ ELSE "pending"]
    /\ Finish(r, "false", req[r])
    /\ UNCHANGED <<sbiLogs, phonepeLogs, notifications, nRec>>

\* the donation is selected and the rest of retry_failed_email runs
RetryRun(r, outcome) ==
    /\ pc[r] = "re_run"
    /\ LET o == req[r].order
           donation == IF o \in Orders THEN donations[o] ELSE NoDonation
           res == RetryFailedEmail(donation, Rows(sbiLogs, o), Rows(phonepeLogs, o),
                                   outcome)
       IN /\ res.sent \/ outcome = "sent"
          /\ notifications' = IF res.sent THEN [notifications EXCEPT ![o] = @ + 1]
                              ELSE notifications
          /\ Finish(r, IF res.result THEN "true" ELSE "false",
                    [req[r] EXCEPT !.don = donation.status, !.email = donation.email,
                                   !.notified = res.sent,
                                   !.outcome = IF res.sent THEN outcome ELSE "none"])
    /\ UNCHANGED <<tables, nRec>>

\* DonationService.get_donation_details: the donation and its PhonePe log
GetDonationDetails(r, order_id) ==
    /\ pc[r] = "idle"
    /\ LET donation == IF order_id \in Orders THEN donations[order_id] ELSE NoDonation
           rec == BeginRecord(r, "details", order_id)
       IN IF donation = NoDonation
          THEN Finish(r, "not_found", rec)
          ELSE Finish(r, "ok", [rec EXCEPT !.don = donation.status,
                                           !.email = donation.email,
                                           !.details = Rows(phonepeLogs, order_id) # <<>>])
    /\ UNCHANGED <<tables, notifications, nRec>>

\* DonationService.list_donations with a status filter: details tells
\* whether a donation matched
ListDonations(r, status) ==
    /\ pc[r] = "idle"
    /\ Finish(r, "ok", [BeginRecord(r, "list", "none") EXCEPT
                            !.don = status,
                            !.details = \E o \in Orders : donations[o].status = status])
    /\ UNCHANGED <<tables, notifications, nRec>>

\* the replies of the verification with the refused query among them
VerifyReplies == TxStatuses \cup {"raise", "error"}

\* one request at a time, every operation of the two services
NextService ==
    \/ NoneDone /\ Intake /\ UNCHANGED sideVars
    \/ \E r \in Reqs : Alone(r) /\ \E o \in Orders : BeginCreatePhonePe(r, o) /\ UNCHANGED sideVars
    \/ \E r \in Reqs : Alone(r) /\ \E ok \in BOOLEAN : CreatePhonePeCall(r, ok) /\ UNCHANGED sideVars
    \/ \E r \in Reqs : Alone(r) /\ CreatePhonePeInsert(r) /\ UNCHANGED sideVars
    \/ \E r \in Reqs : Alone(r) /\ \E o \in Orders : BeginCreateSbiePay(r, o) /\ UNCHANGED sideVars
    \/ \E r \in Reqs : Alone(r) /\ CreateSbiePayInsert(r) /\ UNCHANGED sideVars
    \/ \E r \in Reqs : Alone(r) /\ \E pkt \in Packets, order_id \in Orders \cup {"none"} : BeginHandle(r, pkt, order_id) /\ UNCHANGED sideVars
    \/ \E r \in Reqs : Alone(r) /\ HandleSelect(r) /\ UNCHANGED sideVars
    \/ \E r \in Reqs : Alone(r) /\ HandleCommit(r) /\ UNCHANGED sideVars
    \/ \E r \in Reqs : Alone(r) /\ HandleRefresh(r) /\ UNCHANGED sideVars
    \/ \E r \in Reqs : Alone(r) /\ \E o \in OrderIds : BeginVerify(r, o) /\ UNCHANGED sideVars
    \/ \E r \in Reqs : Alone(r) /\ VerifySelect(r) /\ UNCHANGED sideVars
    \/ \E r \in Reqs : Alone(r) /\ \E reply \in VerifyReplies : VerifyCall(r, reply) /\ UNCHANGED sideVars
    \/ \E r \in Reqs : Alone(r) /\ VerifyCommit(r) /\ UNCHANGED sideVars
    \/ \E r \in Reqs : Alone(r) /\ VerifyRefresh(r) /\ UNCHANGED sideVars
    \/ \E r \in Reqs : Alone(r) /\ UpdateDonationSelect(r) /\ UNCHANGED sideVars
    \/ \E r \in Reqs : Alone(r) /\ UpdateDonationCommit(r) /\ UNCHANGED sideVars
    \/ \E r \in Reqs : Alone(r) /\ UpdateDonationRefresh(r) /\ UNCHANGED sideVars
    \/ \E r \in Reqs : Alone(r) /\ \E o \in OrderIds : BeginPoll(r, o) /\ UNCHANGED sideVars
    \/ \E r \in Reqs : Alone(r) /\ PollSelect(r) /\ UNCHANGED sideVars
    \/ \E r \in Reqs : Alone(r) /\ \E state \in PhonePePaymentState \cup {"raise"}, pd \in BOOLEAN : PollCall(r, state, pd) /\ UNCHANGED sideVars
    \/ \E r \in Reqs : Alone(r) /\ PollCommit(r) /\ UNCHANGED sideVars
    \/ \E r \in Reqs : Alone(r) /\ PollRefresh(r) /\ UNCHANGED sideVars
    \/ \E r \in Reqs : Alone(r) /\ PollDonationSelect(r) /\ UNCHANGED sideVars
    \/ \E r \in Reqs : Alone(r) /\ PollDonationCommit(r) /\ UNCHANGED sideVars
    \/ \E r \in Reqs : Alone(r) /\ PollDonationRefresh(r) /\ UNCHANGED sideVars
    \/ \E r \in Reqs : Alone(r) /\ \E outcome \in NotifyOutcomes : SendThankYouSafe(r, outcome) /\ UNCHANGED sideVars
    \/ \E r \in Reqs : Alone(r) /\ \E o \in OrderIds : BeginRetry(r, o) /\ UNCHANGED sideVars
    \/ \E r \in Reqs : Alone(r) /\ \E outcome \in NotifyOutcomes : RetryRun(r, outcome) /\ UNCHANGED sideVars
    \/ \E r \in Reqs : Alone(r) /\ \E o \in OrderIds : GetDonationDetails(r, o) /\ UNCHANGED sideVars
    \/ \E r \in Reqs : Alone(r) /\ \E status \in DonationStatus : ListDonations(r, status) /\ UNCHANGED sideVars
    \/ \E r \in Reqs : Return(r) /\ UNCHANGED sideVars

SpecService == Init /\ [][NextService]_vars

\* ---------------------------------------------------- notification service
\* rows of email_logs the model lets accumulate
MaxEmailLogs == 2

MessageIds == {"m1", "m2"}

\* what ses_client.send_email does: returns a MessageId, raises ClientError
\* (the message of the error response), raises anything else
SesOutcomes ==
    {[kind |-> "ok", text |-> m] : m \in MessageIds}
    \cup {[kind |-> k, text |-> k] : k \in {"MessageRejected", "EndpointConnectionError"}}

\* EmailService.send_email: ValueError without a body, else the result
\* dictionary; every exception of the SES call ends in success False
EmailSendEmail(body, ses) ==
    IF ~body
    THEN [NoResult EXCEPT !.raised = TRUE, !.error_message = "ValueError"]
    ELSE IF ses.kind = "ok"
    THEN [NoResult EXCEPT !.success = TRUE, !.message_id = ses.text]
    ELSE [NoResult EXCEPT !.error_message = ses.text]

\* EmailService.send_template_email: a template that does not render ends
\* in success False as well
EmailSendTemplateEmail(renders, ses) ==
    IF ~renders
    THEN [NoResult EXCEPT !.error_message = "TemplateNotFound"]
    ELSE EmailSendEmail(TRUE, ses)

\* the update that leaves a failed send as it was
RecordResultSuccessOnly(method, log, result, renders) ==
    IF result.success /\ ~result.raised
    THEN [log EXCEPT !.status = "sent", !.message_id = result.message_id]
    ELSE log

\* the try/except of send_email (lines 64-83) and send_template_email
\* (127-154) applied to the EmailLog object; send_template_email stores the
\* rendered content when the template renders a second time
RecordResult(method, log, result, renders) ==
    IF result.raised
    THEN [log EXCEPT !.status = "failed", !.error_message = result.error_message]
    ELSE IF result.success
    THEN [log EXCEPT !.status = "sent", !.message_id = result.message_id,
                     !.content = IF method = "send_template_email" /\ renders
                                 THEN TRUE ELSE @]
    ELSE [log EXCEPT !.status = "failed", !.error_message = result.error_message]

LastRow(rows) == rows[Len(rows)]

\* EmailLog(status="pending"), session.add, commit
CreateEmailLog(method, body, renders) ==
    /\ mail.at = "idle"
    /\ Len(mail.rows) < MaxEmailLogs
    /\ method = "send_email" => renders
    /\ method = "send_template_email" => ~body
    /\ LET email_log == [NoEmailLog EXCEPT !.status = "pending", !.content = body] IN
       mail' = [mail EXCEPT !.at = "created", !.method = method, !.body = body,
                            !.renders = renders, !.result = NoResult,
                            !.log = email_log, !.rows = Append(@, email_log)]
    /\ UNCHANGED mailFrame

\* refresh(email_log) after the first commit
RefreshCreated ==
    /\ mail.at = "created"
    /\ mail' = [mail EXCEPT !.at = "send", !.log = LastRow(mail.rows)]
    /\ UNCHANGED mailFrame

\* the email service is called, the EmailLog object updated and committed
SendEmail(ses, rendersAgain) ==
    /\ mail.at = "send"
    /\ rendersAgain => mail.renders
    /\ LET result == IF mail.method = "send_email"
                     THEN EmailSendEmail(mail.body, ses)
                     ELSE EmailSendTemplateEmail(mail.renders, ses)
           cur == RecordResult(mail.method, mail.log, result, rendersAgain)
           n == Len(mail.rows)
       IN mail' = [mail EXCEPT !.at = "sent", !.result = result, !.log = cur,
                               !.rows = [@ EXCEPT ![n] = Flush(@, mail.log, cur)]]
    /\ UNCHANGED mailFrame

\* refresh(email_log) after the second commit; the call returns email_log
RefreshSent ==
    /\ mail.at = "sent"
    /\ mail' = [mail EXCEPT !.at = "done", !.log = LastRow(mail.rows)]
    /\ UNCHANGED mailFrame

MailReturn ==
    /\ mail.at = "done"
    /\ mail' = [IdleMail EXCEPT !.rows = mail.rows]
    /\ UNCHANGED mailFrame

NextMail ==
    \/ \E method \in {"send_email", "send_template_email"}, body, renders \in BOOLEAN :
           CreateEmailLog(method, body, renders)
    \/ RefreshCreated
    \/ \E ses \in SesOutcomes, rendersAgain \in BOOLEAN : SendEmail(ses, rendersAgain)
    \/ RefreshSent
    \/ MailReturn

SpecMail == Init /\ [][NextMail]_vars

\* ----------------------------------------------------------------- claims
\* the step cancels r: only Cancel takes a request in flight to idle
Cancelled(r) == InFlight(r) /\ pc'[r] = "idle"

\* the step is one of r's own and runs its code
Moves(r) == pc'[r] # pc[r] /\ ~Cancelled(r)

SbiLog(o) == IF Rows(sbiLogs, o) = <<>> THEN NoSbiLog ELSE Head(sbiLogs[o])

PhonePeLog(o) == IF Rows(phonepeLogs, o) = <<>> THEN NoPhonePeLog ELSE Head(phonepeLogs[o])

LogSucceeded(o) == SbiLog(o).status = "success" \/ PhonePeLog(o).status = "completed"

LogCount(o) == Len(sbiLogs[o]) + Len(phonepeLogs[o])

\* request r is at the commit of a payment log and its gateway report maps
\* to Pending
CommitsPendingReport(r) ==
    \/ pc[r] = "h_commit" /\ MapCallbackStatus(req[r].report) = "pending"
    \/ pc[r] = "v_commit" /\ MapVerifyStatus(req[r].report) = "pending"
    \/ pc[r] = "p_commit" /\ MapPhonePeState(req[r].report) = "pending"

\* C1: once a payment log is Success (SBIePay "success", PhonePe
\* "completed"), the commit of a reconciliation that carries a Pending
\* report leaves it Success.
C1_NoRegressionOnPending ==
    [][\A r \in Reqs :
          (CommitsPendingReport(r) /\ pc'[r] # pc[r] /\ LogSucceeded(req[r].order))
              => LogSucceeded(req[r].order)']_vars

\* C2: once a donation is Completed, no step sets it back to Pending or
\* PaymentFailed.
C2_CompletedDonationStays ==
    [][\A o \in Orders :
          donations[o].status = "completed" => donations'[o].status = "completed"]_vars

\* r has sent the thank-you email or stands at the send with an address
Dispatches(r) == req[r].notified \/ (pc[r] = "notify" /\ req[r].email)

PastLogCommit(r) ==
    pc[r] \in {"h_refresh", "v_refresh", "d_select", "d_commit", "d_refresh", "notify", "done"}

C4_AtMostOneNotification == \A o \in Orders : notifications[o] <= 1

\* the rows of r's order already record the response r delivers, and r
\* loaded them so
RepeatOf(r) ==
    LET o == req[r].order IN
    /\ o \in Orders
    /\ donations[o] # NoDonation
    /\ \/ /\ req[r].kind = "handle" /\ pc[r] \in {"h_commit", "h_refresh", "d_select", "d_commit", "d_refresh"}
          /\ req[r].prev = MapCallbackStatus(req[r].report)
          /\ SbiLog(o).status = req[r].prev
          /\ SbiLog(o).data = req[r].report /\ SbiLog(o).ref = "atrn"
          /\ donations[o].status = DeriveDonationStatus(req[r].prev)
       \/ /\ req[r].kind = "verify" /\ pc[r] \in {"v_commit", "v_refresh", "d_select", "d_commit", "d_refresh"}
          /\ req[r].prev = MapVerifyStatus(req[r].report)
          /\ SbiLog(o).status = req[r].prev
          /\ SbiLog(o).dv = req[r].report /\ SbiLog(o).ref = "atrn"
          /\ donations[o].status = DeriveDonationStatus(req[r].prev)
       \/ /\ req[r].kind = "poll" /\ pc[r] \in {"p_commit", "p_refresh", "pd_select", "pd_commit", "pd_refresh"}
          /\ req[r].prev = MapPhonePeState(req[r].report)
          /\ PhonePeLog(o).status = req[r].prev
          /\ (req[r].details => PhonePeLog(o).details = "details")
          /\ donations[o].status = DerivePhonePeDonationStatus(req[r].prev)

\* r ends the donation update of a first success: it loaded a status other
\* than success and its report maps to success
FirstSuccess(r) ==
    \/ /\ req[r].kind = "handle" /\ pc[r] = "d_refresh"
       /\ req[r].prev # "success" /\ MapCallbackStatus(req[r].report) = "success"
    \/ /\ req[r].kind = "verify" /\ pc[r] = "d_refresh"
       /\ req[r].prev # "success" /\ MapVerifyStatus(req[r].report) = "success"
    \/ /\ req[r].kind = "poll" /\ pc[r] = "pd_refresh"
       /\ req[r].donPrev # "completed" /\ MapPhonePeState(req[r].report) = "completed"

C6_NotificationFailureContained ==
    [][\A r \in Reqs :
          (pc[r] = "notify" /\ Moves(r))
              => /\ pc'[r] = "done"
                 /\ req'[r].result = "ok"
                 /\ tables' = tables]_vars

C6_Witness ==
    \E r \in Reqs :
        /\ pc[r] = "done" /\ req[r].outcome = "raise" /\ req[r].result = "ok"
        /\ req[r].wroteLog /\ req[r].wroteDon
        /\ donations[req[r].order].status = "completed"
        /\ LogSucceeded(req[r].order)

AllIdle == \A r \in Reqs : pc[r] = "idle"

\* the payment log of the donation's provider
ProviderLogStatus(o) ==
    IF donations[o].provider = "phonepe" THEN PhonePeLog(o).status ELSE SbiLog(o).status

\* C7: whenever no request is in progress, the status of a donation is the
\* derivation of the status of its payment log.
C7_DonationFollowsLog ==
    AllIdle =>
        \A o \in Orders :
            (donations[o] # NoDonation /\ ProviderLogStatus(o) # "none")
                => donations[o].status = DeriveDonationStatus(ProviderLogStatus(o))

\* C8: a cancelled reconciliation has persisted all of its writes or none:
\* at its cancellation it has not committed its payment log write without
\* its donation write.
C8_CancelAllOrNothing ==
    [][\A r \in Reqs :
          (Cancelled(r) /\ req[r].kind \in {"handle", "verify", "poll"})
              => (req[r].wroteLog => req[r].wroteDon)]_vars

\* r stands at its payment log lookup and no log exists for the order id it
\* names (nor for the fallback order id of handle_sbiepay_response)
LooksUpMissingLog(r) ==
    \/ /\ pc[r] = "h_select"
       /\ Rows(sbiLogs, req[r].order) = <<>>
       /\ req[r].fallback = "none" \/ Rows(sbiLogs, req[r].fallback) = <<>>
    \/ pc[r] = "v_select" /\ Rows(sbiLogs, req[r].order) = <<>>
    \/ pc[r] = "p_select" /\ Rows(phonepeLogs, req[r].order) = <<>>

\* C9: a reconciliation of an order id without payment log ends with the
\* not-found error; the step creates no log, changes no donation and
\* dispatches nothing.
C9_MissingLogIsNotFound ==
    [][\A r \in Reqs :
          (LooksUpMissingLog(r) /\ Moves(r))
              => /\ pc'[r] = "done"
                 /\ req'[r].result = "not_found"
                 /\ tables' = tables
                 /\ notifications' = notifications]_vars

C9_Witness ==
    \E r \in Reqs :
        /\ pc[r] = "done" /\ req[r].result = "not_found" /\ req[r].kind = "handle"
        /\ req[r].order \in UnknownOrders
        /\ \E o \in Orders : SbiLog(o) # NoSbiLog

\* the step is the successful insert of a payment creation for order o
CreatedNow(o) ==
    \E r \in Reqs :
        /\ pc[r] \in {"cp_insert", "cs_insert"} /\ req[r].order = o
        /\ pc'[r] = "done" /\ req'[r].result = "ok"

LogFailed(o) == SbiLog(o).status = "failed" \/ PhonePeLog(o).status = "failed"

\* C15: once a payment log is failed, the commit of a reconciliation that
\* carries a Pending or unknown report leaves it failed.
C15_FailedStaysOnPending ==
    [][\A r \in Reqs :
          (CommitsPendingReport(r) /\ Moves(r) /\ LogFailed(req[r].order))
              => LogFailed(req[r].order)']_vars

\* r has just been given a callback payload that does not decode
StartsUndecodable(r) ==
    pc[r] = "idle" /\ req'[r].kind = "handle" /\ req'[r].report = "none"

\* C16: a callback payload that does not decrypt or lacks fields ends the
\* handling at once with an error (never the normal return, never a log
\* lookup), and changes no payment log, no donation and no notification;
\* a payload that parses, whatever its status, goes on to the log lookup.
C16_UndecodablePayloadRejected ==
    [][\A r \in Reqs :
          /\ StartsUndecodable(r)
                => /\ pc'[r] = "done"
                   /\ req'[r].result \in {"invalid_request", "sbiepay_error"}
                   /\ tables' = tables
                   /\ notifications' = notifications
          /\ (pc[r] = "idle" /\ req'[r].kind = "handle" /\ req'[r].report # "none")
                => pc'[r] = "h_select"]_vars

C16_Witness ==
    \E r \in Reqs :
        /\ pc[r] = "done" /\ req[r].kind = "handle"
        /\ req[r].result = "sbiepay_error" /\ req[r].report = "none"
        /\ \E o \in Orders : SbiLog(o) # NoSbiLog

\* the terminal status a PhonePe order state stands for
PhonePeTerminal(state) ==
    IF state = "COMPLETED" THEN "completed"
    ELSE IF state = "FAILED" THEN "failed"
    ELSE "expired"

\* C20: a poll answered COMPLETED, FAILED or EXPIRED records the matching
\* terminal status on the PhonePe log (EXPIRED as expired), and only the
\* commit of a poll changes the status of a PhonePe log.
C20_PhonePeTerminalStates ==
    [][\A o \in Orders :
          /\ \A r \in Reqs :
                (/\ pc[r] = "p_commit" /\ Moves(r) /\ req[r].order = o
                 /\ req[r].report \in {"COMPLETED", "FAILED", "EXPIRED"})
                => PhonePeLog(o)'.status = PhonePeTerminal(req[r].report)
          /\ (PhonePeLog(o).status # "none" /\ PhonePeLog(o)'.status # PhonePeLog(o).status)
                => \E r \in Reqs : pc[r] = "p_commit" /\ Moves(r) /\ req[r].order = o]_vars

\* C13: a call of _ensure_auth_token with a token in the cache and the clock
\* before its expiry sends no grant request and uses the cached token; with
\* no token or an expired one it sends exactly one, and the grant that
\* answers it replaces the cache.
C13_TokenReuse ==
    [][\A c \in Callers :
          /\ (caller[c].at = "idle" /\ caller'[c].at # "idle")
                => IF tokCache.token # 0 /\ now < tokCache.expiry
                   THEN /\ authCalls' = authCalls
                        /\ caller'[c].at = "ready"
                        /\ caller'[c].used = tokCache.token
                        /\ tokCache' = tokCache
                   ELSE /\ authCalls' = authCalls + 1
                        /\ caller'[c].at = "auth"
          /\ (caller[c].at = "auth" /\ caller'[c].at = "ready")
                => /\ authCalls' = authCalls
                   /\ \E g \in Grants :
                         /\ tokCache' = [token |-> g.access_token, expiry |-> g.expires_at]
                         /\ caller'[c].used = g.access_token]_vars

C13_Witness ==
    /\ authCalls = 1
    /\ tokCache.token # 0 /\ now < tokCache.expiry /\ now > 0
    /\ \A c \in Callers : caller[c].at = "ready"

\* the cache is empty or holds the token and the expiry of one grant
PairOfOneGrant(cache) ==
    \/ cache = NoToken
    \/ \E g \in Grants : cache = [token |-> g.access_token, expiry |-> g.expires_at]

\* C14: after every step the token cache is empty or holds the token and the
\* expiry of one grant, whatever the callers do at the same time; a caller
\* that goes on after its grant uses the token of the pair in the cache, and
\* a failed grant request leaves the cache as it was.
C14_TokenPairAtomic ==
    [][/\ PairOfOneGrant(tokCache')
       /\ \A c \in Callers :
             /\ (caller[c].at = "auth" /\ caller'[c].at = "ready")
                   => caller'[c].used = tokCache'.token
             /\ (caller[c].at = "auth" /\ caller'[c].at = "failed")
                   => tokCache' = tokCache]_vars

C14_Witness ==
    /\ tokCache = [token |-> 1, expiry |-> ExpiryOf(1)]
    /\ authCalls = 2
    /\ \E c, d \in Callers :
          /\ caller[c].at = "ready" /\ caller[c].used = 2
          /\ caller[d].at = "ready" /\ caller[d].used = 1

\* a packet _decrypt accepts: base64, an IV and whole blocks, a pad length
\* that leaves text, UTF-8
Decrypts(message) ==
    /\ message.b64
    /\ message.size > BLOCK_SIZE
    /\ message.size % BLOCK_SIZE = 0
    /\ message.pad >= 1
    /\ message.pad < message.size - BLOCK_SIZE
    /\ message.utf8

StatusFor(ts) ==
    CASE ts = "SUCCESS" -> "success"
      [] ts \in {"FAILED", "FAIL"} -> "failed"
      [] OTHER -> "pending"

DonationFor(payment_status) ==
    CASE payment_status \in {"success", "completed"} -> "completed"
      [] payment_status = "failed" -> "payment_failed"
      [] OTHER -> "pending"

\* r is a reconciliation that ran to its end and wrote the donation
Reconciled(r) ==
    /\ pc[r] = "done"
    /\ req[r].result = "ok"
    /\ req[r].kind \in {"handle", "verify", "poll"}
    /\ req[r].wroteDon

\* C21: a reconciliation that ran to its end on a donation that was not
\* Completed leaves the donation Completed for a log that is Success or
\* Completed, PaymentFailed for a Failed log and Pending otherwise, through
\* _update_donation_status and through the inline derivation of the PhonePe
\* poll alike
C21_DonationDerivedFromLog ==
    \A r \in Reqs :
        (Reconciled(r) /\ req[r].donPrev # "completed") =>
            donations[req[r].order].status =
                DonationFor(IF req[r].kind = "poll"
                            THEN PhonePeLog(req[r].order).status
                            ELSE SbiLog(req[r].order).status)

C21_Witness ==
    \E r \in Reqs :
        /\ Reconciled(r)
        /\ req[r].kind = "poll"
        /\ req[r].donPrev = "pending"
        /\ PhonePeLog(req[r].order).status = "failed"
        /\ donations[req[r].order].status = "payment_failed"

C23_GatewayErrorCarriesReply ==
    (gw.at = "done" /\ gw.provider = "phonepe") =>
        /\ (gw.reply = "json" /\ gw.status # 200) =>
               /\ gw.result = "none"
               /\ gw.error.type = "PhonePeError"
               /\ gw.error.status_code = gw.status
               /\ gw.error.response_data
        /\ gw.reply = "transport" =>
               /\ gw.result = "none"
               /\ gw.error.type = "PhonePeError"
               /\ gw.error.text = "Network error"

\* C25: the request body of a PhonePe creation carries 100 times the
\* amount, the SBIePay packet the amount itself, and the log of either the
\* amount itself
C25_AmountUnits ==
    (gw.at = "done" /\ gw.op = "create") =>
        /\ (gw.provider = "phonepe" /\ gw.error.text # "Authentication failed")
               => gw.body = gw.amount.cents
        /\ (gw.provider = "sbiepay" /\ gw.error = NoError)
               => gw.packet = gw.amount.cents
        /\ gw.log # NoLog => gw.log.amount = gw.amount.cents

\* C24: the fields that come out of decrypting and splitting an encrypted
\* packet are the fields that went in, and unpadding the padded bytes of a
\* packet gives these bytes, also when their length is a multiple of 16
C24_CodecRoundTrip ==
    /\ trip.at # "idle" => trip.unpadded = trip.bytes
    /\ trip.at = "received" => trip.out = trip.fields

C24_Witness ==
    /\ trip.at = "received"
    /\ Len(trip.bytes) = 2 * BLOCK_SIZE
    /\ Len(trip.fields) = 2
    /\ trip.fields[2] = Repeat(16, 15)
    /\ trip.out = trip.fields
\* C27: when send_email or send_template_email has returned, the EmailLog it
\* created is "sent" with its message_id exactly when the email service
\* reported success, else "failed" with an error_message (also when the
\* email service raised); no row of a returned call is "pending".
C27_EmailLogSettled ==
    mail.at \in {"done", "idle"} =>
        /\ \A i \in 1..Len(mail.rows) : mail.rows[i].status \in {"sent", "failed"}
        /\ mail.at = "done" =>
               LET row == LastRow(mail.rows) IN
               /\ mail.log = row
               /\ row.status = "sent" <=> (mail.result.success /\ ~mail.result.raised)
               /\ row.status = "sent" =>
                      row.message_id = mail.result.message_id /\ row.message_id \in MessageIds
               /\ row.status = "failed" =>
                      row.error_message = mail.result.error_message
                      /\ row.error_message # "none"

\* a send whose email service raised has returned after an earlier send
\* that succeeded
C27_Witness ==
    /\ mail.at = "done"
    /\ mail.result.raised
    /\ Len(mail.rows) = 2
    /\ mail.rows[1].status = "sent"

\* r is a retry_failed_email that has returned; its donation
RetryDone(r) == pc[r] = "done" /\ req[r].kind = "retry"

RetryDonation(r) ==
    IF req[r].order \in Orders THEN donations[req[r].order] ELSE NoDonation

RetryHasLog(r) ==
    Rows(sbiLogs, req[r].order) # <<>> \/ Rows(phonepeLogs, req[r].order) # <<>>

\* C28: retry_failed_email returns True after dispatching the thank-you
\* email for an existing Completed donation with a payment log; it returns
\* False and dispatches nothing when the donation does not exist, is not
\* Completed or has no payment log; it never raises.
C28_RetryOutcome ==
    \A r \in Reqs : RetryDone(r) =>
        LET donation == RetryDonation(r)
            ready == /\ donation # NoDonation
                     /\ donation.status = "completed"
                     /\ RetryHasLog(r)
        IN /\ req[r].result \in {"true", "false"}
           /\ ready => req[r].result = "true" /\ req[r].notified
           /\ ~ready => req[r].result = "false" /\ ~req[r].notified

\* the step is the donation commit of a reconciliation (handle_sbiepay_response,
\* verify_sbiepay_transaction, get_phonepe_payment_status)
ReconcilerWrites ==
    \E r \in Reqs :
        /\ req[r].kind \in {"handle", "verify", "poll"}
        /\ pc[r] \in {"d_commit", "pd_commit"}
        /\ pc'[r] # pc[r]

\* C26: once a Donation exists, its status changes only in a step of a
\* reconciliation operation; payment creation, the notification dispatch,
\* retry_failed_email and the donation reads leave it as it is.
C26_OnlyReconcilerWritesStatus ==
    [][\A o \in Orders :
          (donations[o] # NoDonation /\ donations'[o].status # donations[o].status)
              => ReconcilerWrites]_vars

\* a retry has run on a donation that a reconciliation completed
C26_Witness ==
    \E r \in Reqs :
        /\ RetryDone(r)
        /\ req[r].order \in Orders
        /\ donations[req[r].order].status = "completed"

\* r has ended on a failed gateway call
GatewayCallFailed(r) ==
    /\ pc[r] = "done"
    /\ \/ req[r].kind = "poll" /\ req[r].report = "raise"
       \/ req[r].kind = "verify" /\ req[r].report \in {"raise", "error"}

\* C29: a reconciliation whose gateway call failed (get_order_status
\* raised; verify_transaction raised or returned status "error") has
\* written neither the payment log nor the donation, the stored log is the
\* one it loaded before the call, and it has dispatched no notification.
C29_FailedCallLeavesState ==
    \A r \in Reqs : GatewayCallFailed(r) =>
        /\ ~req[r].wroteLog
        /\ ~req[r].wroteDon
        /\ ~req[r].notified
        /\ req[r].kind = "verify" => Head(sbiLogs[req[r].order]) = req[r].log
        /\ req[r].kind = "poll" => Head(phonepeLogs[req[r].order]) = req[r].plog

\* a verification answered with status "error" has ended on a log that an
\* earlier callback had marked success
C29_Witness ==
    \E r \in Reqs :
        /\ GatewayCallFailed(r)
        /\ req[r].report = "error"
        /\ req[r].log.status = "success"

\* the step in which r calls _send_donation_thank_you_email_safe
CallsNotification(r) == pc'[r] = "notify" /\ pc[r] # "notify"

\* C30: a reconciliation calls the notification only for an order whose
\* Donation exists, has an email and is stored as Completed at the moment
\* of the call, never for a Pending or PaymentFailed donation.
C30_NotifiedOnlyWhenCompleted ==
    [][\A r \in Reqs : CallsNotification(r) =>
          LET donation == donations'[req'[r].order] IN
          /\ donation # NoDonation
          /\ donation.email
          /\ donation.status = "completed"]_vars

====
